---- MODULE Spec2Model ----
(***************************************************************************)
(* A model of KristWsClient (src/src/api/ws/KristWsClient.ts): connection  *)
(* lifecycle, reconnection backoff, request/response correlation and the   *)
(* subscription sync of handleHello, together with the environment it      *)
(* talks to (the REST ws/start exchange, the WebSocket transports, the     *)
(* server's replies and the shared rate limiter).                          *)
(*                                                                         *)
(* One action is one job of the JavaScript event loop: a public call, a    *)
(* timer callback or a transport callback, run to completion together with *)
(* the promise continuations (microtasks) it triggers.                     *)
(***************************************************************************)
EXTENDS Naturals, Integers, Sequences, FiniteSets

\* ------------------------------------------------------------------ bounds
\* _connect() invocations (and so transports) over the life of one client
MaxConn == 2
\* sendAndWait() calls over the life of one client
MaxReq == 3
\* sendAndWait() calls over the life of one client under Spec
SpecCalls == 2
\* messages in flight to the client on one transport when the server sends
\* one more of its own accord
MaxInbox == 2
\* the digests a hash function of the model can return
NDigests == 12
\* calls of the hash function within one call of makeV2Address
MaxHashCalls == 44

\* the largest size of a paginated collection
MaxTotal == 6

\* ------------------------------------------------------- program constants
DEFAULT_CONNECT_DEBOUNCE_MS == 1000
\* private messageId = 1: the value the counter starts from and is reset to
InitialMessageId == 1
\* options?.maxReconnectSecs || 60
DefaultMaxReconnectSecs == 60

ConnIds == 1..MaxConn
ReqIds == 1..MaxReq
\* the ids sendAndWait can hand out: ++messageId with messageId >= 1
MsgIds == 1..(MaxReq + InitialMessageId)

\* KristWsSubscription, cut down to one of the seven names
Subs == {"blocks"}
\* the order in which arrays of subscription names are walked
SubsOrder == <<"blocks">>

\* options.maxReconnectSecs as given by the caller; 0 stands for "not given"
OptMaxReconnectSecs == {0, 2}
\* what the caller's options authenticate with
OptionKinds == {"guest", "password"}

\* the same with options that carry a private key of the caller's
AuthKinds == OptionKinds \cup {"privatekey"}

VARIABLES
  \* ---- fields of KristWsClient
  connectionState,    \* "connecting" | "connected" | "disconnected"
  messageId,          \* counter of outgoing message ids
  messageResponses,   \* id -> request handle (0: no entry)
  reconnectionTimer,  \* [pending, delay]: the timer handleDisconnect sets
  connectDebounceMs,  \* current reconnect delay
  forceClosing,
  ws,                 \* the transport this.ws refers to (0: null)
  isOpened,
  isClosed,
  privatekey,         \* "none" (undefined), "key" (derived) or "given"
  initSubscriptions,  \* the desired subscription set
  maxReconnectSecs,
  options,            \* kind of the options given at construction
  \* ---- environment
  conn,       \* per _connect() call: its stage, its promise, its transport, the
              \* server's subscription set and the messages in flight to the client
  req,        \* per sendAndWait() call: id, payload, promise, transmission
  hello,      \* per transport: the handleHello() run its hello message started
  emits,      \* the signals emitted by the last job, in order
  \* ---- the library outside the client
  call        \* the last call of a library function: arguments and outcome

\* the client and its environment
clientVars == <<connectionState, messageId, messageResponses, reconnectionTimer,
                connectDebounceMs, forceClosing, ws, isOpened, isClosed,
                privatekey, initSubscriptions, maxReconnectSecs, options, conn,
                req, hello, emits>>

vars == <<clientVars, call>>

\* -------------------------------------------------------------- helpers
Min(a, b) == IF a < b THEN a ELSE b
Max(a, b) == IF a > b THEN a ELSE b

\* reconnectionTimer: whether the timer the field refers to is pending, and its
\* delay; others: the pending timers that no field refers to any more
NoTimer == [pending |-> FALSE, delay |-> 0, others |-> 0]

NoConn == [st |-> "unused", origin |-> "none", promise |-> "none",
           subs |-> {}, inbox |-> <<>>]

NoReq == [st |-> "unused", id |-> 0, kind |-> "none", event |-> "none",
          owner |-> 0, settle |-> "none"]

NoHello == [st |-> "none", waits |-> {}]

\* the fields of an inbound message that the client reads; has: the message
\* carries a subscription_level, subs; event: the kind of an event message
NoMsg == [type |-> "none", id |-> 0, ok |-> TRUE, error |-> FALSE,
          has |-> FALSE, subs |-> {}, event |-> "none"]

\* a message whose type field is missing
Typeless == [NoMsg EXCEPT !.type = ""]

\* the messages a server sends of its own accord
Pushes == {Typeless, [NoMsg EXCEPT !.type = "keepalive"],
           [NoMsg EXCEPT !.type = "event", !.event = "block"]}

\* a frame that is not JSON text
NotJson == [NoMsg EXCEPT !.type = "notjson"]

\* what a transport can deliver without being asked
Frames == Pushes \cup {NotJson}

\* no library function has been called
NoCall == [fn |-> "none"]

\* The whole state as one record, so that a handler is a function from state
\* to state and handlers compose the way the calls in the code do.
\* overflow is no program state: it records that a bound of the model was hit.
Cur ==
  [connectionState |-> connectionState, messageId |-> messageId,
   messageResponses |-> messageResponses, reconnectionTimer |-> reconnectionTimer,
   connectDebounceMs |-> connectDebounceMs, forceClosing |-> forceClosing,
   ws |-> ws, isOpened |-> isOpened, isClosed |-> isClosed,
   privatekey |-> privatekey, initSubscriptions |-> initSubscriptions,
   maxReconnectSecs |-> maxReconnectSecs, options |-> options,
   conn |-> conn, req |-> req, hello |-> hello,
   emits |-> <<>>, overflow |-> FALSE]

Commit(s) ==
  /\ s.overflow = FALSE
  /\ connectionState' = s.connectionState
  /\ messageId' = s.messageId
  /\ messageResponses' = s.messageResponses
  /\ reconnectionTimer' = s.reconnectionTimer
  /\ connectDebounceMs' = s.connectDebounceMs
  /\ forceClosing' = s.forceClosing
  /\ ws' = s.ws
  /\ isOpened' = s.isOpened
  /\ isClosed' = s.isClosed
  /\ privatekey' = s.privatekey
  /\ initSubscriptions' = s.initSubscriptions
  /\ maxReconnectSecs' = s.maxReconnectSecs
  /\ options' = s.options
  /\ conn' = s.conn
  /\ req' = s.req
  /\ hello' = s.hello
  /\ emits' = s.emits
  /\ call' = call

\* this.emit(...)
emit(s, e) == [s EXCEPT !.emits = Append(@, e)]

\* setConnectionState: assigns and always emits "state" with new and old
setConnectionState(s, state) ==
  emit([s EXCEPT !.connectionState = state], <<"state", state, s.connectionState>>)

\* clearTimeout(this.reconnectionTimer)
clearTimeout(s) ==
  [s EXCEPT !.reconnectionTimer.pending = FALSE, !.reconnectionTimer.delay = 0]

\* this.reconnectionTimer = setTimeout(..., delay): a timer that is still
\* pending when the field is overwritten stays pending
setTimeout(s, delay) ==
  [s EXCEPT !.reconnectionTimer =
     [pending |-> TRUE, delay |-> delay,
      others |-> @.others + (IF @.pending THEN 1 ELSE 0)]]

\* handleDisconnect without its setTimeout
handleDisconnectNoTimer(s) == setConnectionState(clearTimeout(s), "disconnected")

\* handleDisconnect without its clearTimeout
handleDisconnectNoClear(s) ==
  LET s2 == setConnectionState(s, "disconnected")
  IN  setTimeout(s2, s2.connectDebounceMs)

\* handleDisconnect: clear the timer, enter "disconnected", set a new timer
\* with the current delay. forceClosing is not consulted.
handleDisconnect(s) ==
  LET s2 == setConnectionState(clearTimeout(s), "disconnected")
  IN  setTimeout(s2, s2.connectDebounceMs)

\* handleClose
handleClose(s) == handleDisconnect(emit(s, <<"wsClose">>))

\* reject(...) of the promise of _connect() call c. Both callers of _connect
\* (connect()'s try/catch, the timer callback's .catch) answer a rejection with
\* handleDisconnect; rejecting a promise that is already settled does nothing.
rejectConnect(s, c) ==
  IF s.conn[c].promise = "pending"
    THEN handleDisconnect([s EXCEPT !.conn[c].promise = "rejected"])
    ELSE s

\* resolve() of the promise of _connect() call c
resolveConnect(s, c) ==
  IF s.conn[c].promise = "pending"
    THEN [s EXCEPT !.conn[c].promise = "resolved"]
    ELSE s

\* ------------------------------------------------ requests (sendAndWait)
\* sendAndWait calls made so far; handles are given out in order
NextReq(s) == Cardinality({r \in ReqIds : s.req[r].st # "unused"}) + 1

\* _connect() calls begun so far
nAttempts(s) == Cardinality({c \in ConnIds : s.conn[c].st # "unused"})

\* The server behind transport c takes request r and puts its reply in flight.
\* ok = FALSE: it answers with an error message and changes nothing.
serverReply(s, c, r, ok) ==
  LET q == s.req[r]
      newSubs == IF ~ok THEN s.conn[c].subs
                 ELSE IF q.kind = "subscribe" THEN s.conn[c].subs \cup {q.event}
                 ELSE IF q.kind = "unsubscribe" THEN s.conn[c].subs \ {q.event}
                 ELSE s.conn[c].subs
      \* subscription_level, which only the subscription replies carry
      has == ok /\ q.kind # "me"
      reply == [type |-> IF ok THEN "response" ELSE "error", id |-> q.id,
                ok |-> ok, error |-> ~ok, has |-> has,
                subs |-> IF has THEN newSubs ELSE {}, event |-> "none"]
  IN  [s EXCEPT !.conn[c].subs = newSubs, !.conn[c].inbox = Append(@, reply)]

\* this.ws?.send(JSON.stringify(msg)), then sendAndWait's .catch(reject).
\* A null ws sends nothing; a transport that is still connecting throws, which
\* rejects the request; an open one transmits; a closing or closed one discards.
wsSend(s, r, env) ==
  IF s.ws = 0 THEN [s EXCEPT !.req[r].st = "dropped"]
  ELSE IF s.conn[s.ws].st \in {"opening", "aborting"}
    THEN [s EXCEPT !.req[r].st = "threw",
                   !.req[r].settle = IF @ = "pending" THEN "rejected" ELSE @]
  ELSE IF s.conn[s.ws].st = "open"
    THEN serverReply([s EXCEPT !.req[r].st = "sent"], s.ws, r, r \notin env.errs)
  ELSE [s EXCEPT !.req[r].st = "dropped"]

\* sendRaw: await limiter.removeTokens(1), then send. The limiter is shared by
\* every client of the process: whether it has a token left is the
\* environment's choice (env.lim: the requests it makes wait). With a token at
\* hand the await resumes within the same job.
sendRaw(s, r, env) ==
  IF r \in env.lim
    THEN [s EXCEPT !.req[r].st = "queued"]
    ELSE wsSend(s, r, env)

\* sendAndWait: id = ++this.messageId; messageResponses[id] = {resolve, reject};
\* sendRaw(msg)
sendAndWait(s, kind, event, owner, env) ==
  LET r == NextReq(s)
      id == s.messageId + 1
  IN  IF r > MaxReq THEN [s EXCEPT !.overflow = TRUE]
      ELSE sendRaw([s EXCEPT !.messageId = id,
                             !.messageResponses[id] = r,
                             !.req[r] = [st |-> "new", id |-> id, kind |-> kind,
                                         event |-> event, owner |-> owner,
                                         settle |-> "pending"]],
                   r, env)

RECURSIVE sendAll(_, _, _, _)
\* [...].map(s => this.unsubscribe(s)) / this.subscribe(s): the calls in order
sendAll(s, todo, owner, env) ==
  IF todo = <<>> \/ s.overflow THEN s
  ELSE sendAll(sendAndWait(s, Head(todo)[1], Head(todo)[2], owner, env),
               Tail(todo), owner, env)

\* ------------------------------------------------------------ handleHello
\* the members of set, in array order
InOrder(set) ==
  LET Test(x) == x \in set
  IN  SelectSeq(SubsOrder, Test)

\* the tail of handleHello: setConnectionState("connected"); emit("ready", msg)
helloReady(s, h) ==
  emit(setConnectionState([s EXCEPT !.hello[h] = [st |-> "done", waits |-> {}]],
                          "connected"),
       <<"ready", h>>)

\* helloSync as it would be if it subscribed to every wanted event, whether
\* the server has it or not
helloSyncResubscribes(s, h, haveSubs, env) ==
  LET wantSubs == s.initSubscriptions
      removeSubs == InOrder(haveSubs \ wantSubs)
      addSubs == InOrder(wantSubs)
      todo == [i \in 1..Len(removeSubs) |-> <<"unsubscribe", removeSubs[i]>>]
              \o [i \in 1..Len(addSubs) |-> <<"subscribe", addSubs[i]>>]
      first == NextReq(s)
      s1 == sendAll(s, todo, h, env)
      issued == first..(NextReq(s1) - 1)
  IN  IF s1.overflow THEN s1
      ELSE IF todo = <<>> THEN helloReady(s1, h)
      ELSE IF \E r \in issued : s1.req[r].settle = "rejected"
        THEN [s1 EXCEPT !.hello[h] = [st |-> "failed", waits |-> {}]]
      ELSE [s1 EXCEPT !.hello[h] = [st |-> "sync", waits |-> issued]]

\* handleHello after getSubscriptions() has resolved with haveSubs: removeSubs and
\* addSubs are computed, every unsubscribe and subscribe is issued, and
\* Promise.all waits for them (with none to wait for it resolves at once; a
\* request rejected by a throwing send rejects it).
helloSync(s, h, haveSubs, env) ==
  LET wantSubs == s.initSubscriptions
      removeSubs == InOrder(haveSubs \ wantSubs)
      addSubs == InOrder(wantSubs \ haveSubs)
      todo == [i \in 1..Len(removeSubs) |-> <<"unsubscribe", removeSubs[i]>>]
              \o [i \in 1..Len(addSubs) |-> <<"subscribe", addSubs[i]>>]
      first == NextReq(s)
      s1 == sendAll(s, todo, h, env)
      issued == first..(NextReq(s1) - 1)
  IN  IF s1.overflow THEN s1
      ELSE IF todo = <<>> THEN helloReady(s1, h)
      ELSE IF \E r \in issued : s1.req[r].settle = "rejected"
        THEN [s1 EXCEPT !.hello[h] = [st |-> "failed", waits |-> {}]]
      ELSE [s1 EXCEPT !.hello[h] = [st |-> "sync", waits |-> issued]]

\* The continuation of the handleHello run that awaits request r, once r has
\* been settled with msg. A rejection ends the run (its promise rejects, nobody
\* listens), and so does a reply to getSubscriptions() that carries no
\* subscription_level: haveSubs is undefined and haveSubs.filter throws.
helloSettled(s, r, msg, env) ==
  LET h == s.req[r].owner
  IN  IF h = 0 THEN s
      ELSE IF r \notin s.hello[h].waits THEN s
      ELSE IF s.req[r].settle = "rejected"
        THEN [s EXCEPT !.hello[h] = [st |-> "failed", waits |-> {}]]
      ELSE IF s.hello[h].st = "getsubs"
        THEN IF msg.has THEN helloSync(s, h, msg.subs, env)
             ELSE [s EXCEPT !.hello[h] = [st |-> "failed", waits |-> {}]]
      ELSE IF s.hello[h].waits = {r} THEN helloReady(s, h)
      ELSE [s EXCEPT !.hello[h].waits = @ \ {r}]

\* handleHello as it would be if it emitted ready within the dispatch of the
\* hello message
handleHelloAtOnce(s, c, env) == helloReady(s, c)

\* handleHello for the hello message of transport c, up to its first await
handleHello(s, c, env) ==
  LET r == NextReq(s)
      s1 == sendAndWait(s, "get_subscription_level", "none", c, env)
  IN  IF s1.overflow THEN s1
      ELSE IF s1.req[r].settle = "rejected"
        THEN [s1 EXCEPT !.hello[c] = [st |-> "failed", waits |-> {}]]
      ELSE [s1 EXCEPT !.hello[c] = [st |-> "getsubs", waits |-> {r}]]

\* ---------------------------------------------------------- handleMessage
\* handler.resolve(msg) / handler.reject(msg): settling a promise that is
\* already settled does nothing
settle(s, r, msg, env) ==
  IF s.req[r].settle # "pending" THEN s
  ELSE helloSettled([s EXCEPT !.req[r].settle =
                                 IF msg.ok /\ ~msg.error THEN "resolved" ELSE "rejected"],
                    r, msg, env)

\* the _isMsgResponse branch without its delete
handleResponseKeepsEntry(s, msg, env) ==
  LET handler == s.messageResponses[msg.id]
  IN  IF handler = 0 THEN emit(s, <<"errorUnexpectedResponse", msg.id>>)
      ELSE settle(s, handler, msg, env)

\* the _isMsgResponse branch with a bare return where no handler is found
handleResponseSilent(s, msg, env) ==
  LET handler == s.messageResponses[msg.id]
  IN  IF handler = 0 THEN s
      ELSE settle([s EXCEPT !.messageResponses[msg.id] = 0], handler, msg, env)

\* the _isMsgResponse branch of handleMessage
handleResponse(s, msg, env) ==
  LET handler == s.messageResponses[msg.id]
  IN  IF handler = 0 THEN emit(s, <<"errorUnexpectedResponse", msg.id>>)
      ELSE settle([s EXCEPT !.messageResponses[msg.id] = 0], handler, msg, env)

\* the _isMsgEvent branch of handleMessage
handleEvent(s, msg) ==
  LET s1 == emit(s, <<"event", msg>>)
  IN  IF msg.event \in {"block", "transaction", "name"}
        THEN emit(s1, <<msg.event, msg>>)
        ELSE s1

\* handleMessage with the test of the type field left out
handleMessageNoTypeTest(s, c, msg, env) ==
  IF s.ws = 0 \/ ~s.isOpened \/ s.isClosed \/ s.forceClosing THEN s
  ELSE LET s1 == emit(s, <<"message", msg>>)
       IN  IF msg.type = "hello" THEN handleHello(s1, c, env)
           ELSE IF msg.type = "event" THEN handleEvent(s1, msg)
           ELSE IF msg.type \in {"response", "error"} THEN handleResponse(s1, msg, env)
           ELSE IF msg.type = "keepalive" THEN emit(s1, <<"keepalive">>)
           ELSE s1

\* handleMessage without forceClosing in its first test
handleMessageWhileForceClosing(s, c, msg, env) ==
  IF s.ws = 0 \/ ~s.isOpened \/ s.isClosed THEN s
  ELSE IF msg.type = "" THEN emit(s, <<"errorInvalidMessage", msg>>)
  ELSE LET s1 == emit(s, <<"message", msg>>)
       IN  IF msg.type = "hello" THEN handleHello(s1, c, env)
           ELSE IF msg.type = "event" THEN handleEvent(s1, msg)
           ELSE IF msg.type \in {"response", "error"} THEN handleResponse(s1, msg, env)
           ELSE IF msg.type = "keepalive" THEN emit(s1, <<"keepalive">>)
           ELSE s1

\* handleMessage for message msg that transport c delivers
handleMessage(s, c, msg, env) ==
  IF s.ws = 0 \/ ~s.isOpened \/ s.isClosed \/ s.forceClosing THEN s
  ELSE IF msg.type = "" THEN emit(s, <<"errorInvalidMessage", msg>>)
  ELSE LET s1 == emit(s, <<"message", msg>>)
       IN  IF msg.type = "hello" THEN handleHello(s1, c, env)
           ELSE IF msg.type = "event" THEN handleEvent(s1, msg)
           ELSE IF msg.type \in {"response", "error"} THEN handleResponse(s1, msg, env)
           ELSE IF msg.type = "keepalive" THEN emit(s1, <<"keepalive">>)
           ELSE s1

\* onMessage: JSON.parse throws on a frame that is not JSON text and the catch
\* emits errorInvalidMessage with the frame; what parses goes to handleMessage
onMessage(s, c, msg, env) ==
  IF msg = NotJson THEN emit(s, <<"errorInvalidMessage", msg>>)
  ELSE handleMessage(s, c, msg, env)

\* ------------------------------------------------------------- _connect
\* startConnect as it would be if every call derived the key from a password
startConnectDerivesAgain(s, origin) ==
  LET c == nAttempts(s) + 1
      s1 == setConnectionState(s, "disconnected")
      key == IF s.privatekey = "none" /\ s.options = "privatekey"
               THEN "given" ELSE s.privatekey
  IN  IF c > MaxConn THEN [s EXCEPT !.overflow = TRUE]
      ELSE [s1 EXCEPT !.privatekey = key,
                      !.conn[c] =
              [st |-> IF s.options = "password" THEN "key" ELSE "url",
               origin |-> origin, promise |-> "pending",
               subs |-> {}, inbox |-> <<>>]]

\* _connect() up to its first await that leaves the job: enter "disconnected";
\* with no private key yet, derive one from the options (a guest's options yield
\* none at once; a password is run through the wallet format and its hash
\* function); otherwise go straight to the ws/start exchange.
startConnect(s, origin) ==
  LET c == nAttempts(s) + 1
      s1 == setConnectionState(s, "disconnected")
      \* options that carry a private key yield it at once
      key == IF s.privatekey = "none" /\ s.options = "privatekey"
               THEN "given" ELSE s.privatekey
  IN  IF c > MaxConn THEN [s EXCEPT !.overflow = TRUE]
      ELSE [s1 EXCEPT !.privatekey = key,
                      !.conn[c] =
              [st |-> IF s.privatekey = "none" /\ s.options = "password"
                        THEN "key" ELSE "url",
               origin |-> origin, promise |-> "pending",
               subs |-> {}, inbox |-> <<>>]]

\* createTransport without the line that resets messageId
createTransportKeepsMessageId(s, c) ==
  LET s1 == setConnectionState(s, "connecting")
  IN  [s1 EXCEPT !.ws = c,
                 !.conn[c].st = "opening",
                 !.connectDebounceMs = DEFAULT_CONNECT_DEBOUNCE_MS]

\* _connect() from the ws/start reply on: enter "connecting", create the
\* transport and hook its callbacks, reset messageId and connectDebounceMs
createTransport(s, c) ==
  LET s1 == setConnectionState(s, "connecting")
  IN  [s1 EXCEPT !.ws = c,
                 !.conn[c].st = "opening",
                 !.messageId = InitialMessageId,
                 !.connectDebounceMs = DEFAULT_CONNECT_DEBOUNCE_MS]

\* the callback of the timer set by handleDisconnect
timerCallback(s) ==
  startConnect([s EXCEPT !.reconnectionTimer.pending = FALSE,
                         !.reconnectionTimer.delay = 0,
                         !.connectDebounceMs =
                           Min(@ * 2, s.maxReconnectSecs * 1000)],
               "timer")

\* onOpen
onOpen(s, c) ==
  resolveConnect(emit([s EXCEPT !.isOpened = TRUE, !.isClosed = FALSE],
                      <<"wsOpen">>), c)

\* onClose as it would be if the close rejected what is still pending
onCloseRejectsPending(s, c) ==
  LET s1 == [s EXCEPT !.req = [r \in ReqIds |->
                                 IF s.req[r].settle = "pending"
                                   THEN [s.req[r] EXCEPT !.settle = "rejected"]
                                   ELSE s.req[r]]]
  IN  rejectConnect(handleClose([s1 EXCEPT !.isOpened = FALSE, !.isClosed = TRUE]), c)

\* onClose
onClose(s, c) ==
  rejectConnect(handleClose([s EXCEPT !.isOpened = FALSE, !.isClosed = TRUE]), c)

\* onError
onError(s, c) ==
  rejectConnect(emit([s EXCEPT !.isOpened = FALSE, !.isClosed = TRUE],
                     <<"wsError">>), c)

\* forceClose as it would be if it rejected what is still pending
forceCloseRejectsPending(s) ==
  IF s.forceClosing THEN s
  ELSE LET s1 == [s EXCEPT !.forceClosing = TRUE,
                           !.req = [r \in ReqIds |->
                                      IF s.req[r].settle = "pending"
                                        THEN [s.req[r] EXCEPT !.settle = "rejected"]
                                        ELSE s.req[r]]]
       IN  IF s1.ws = 0 \/ ~s1.isOpened \/ s1.isClosed THEN s1
           ELSE [s1 EXCEPT !.conn[s1.ws].st =
                   IF @ = "open" THEN "closing"
                   ELSE IF @ = "opening" THEN "aborting"
                   ELSE @]

\* forceClose
forceClose(s) ==
  IF s.forceClosing THEN s
  ELSE LET s1 == [s EXCEPT !.forceClosing = TRUE]
       IN  IF s1.ws = 0 \/ ~s1.isOpened \/ s1.isClosed THEN s1
           ELSE [s1 EXCEPT !.conn[s1.ws].st =
                   IF @ = "open" THEN "closing"
                   ELSE IF @ = "opening" THEN "aborting"
                   ELSE @]

\* ---------------------------------------------------------------- actions
\* What the environment decides within one job: env.errs, the requests the
\* server answers with an error, and env.lim, the requests the limiter makes
\* wait. Only the requests the job issues or transmits are named.
Envs ==
  LET new == {r \in ReqIds : NextReq(Cur) <= r /\ r < NextReq(Cur) + Cardinality(Subs)}
  IN  [errs : SUBSET new, lim : SUBSET new]

EnvOk(s, env) ==
  /\ \A r \in env.errs : s.req[r].st = "sent"
  /\ \A r \in env.lim : s.req[r].st = "queued"

\* the caller calls connect()
Connect == Commit(startConnect(Cur, "connect"))

\* the reconnect timer fires
TimerFire ==
  /\ reconnectionTimer.pending
  /\ Commit(timerCallback(Cur))

\* calculateAddressFromOptions settles: the key is kept, or the call has thrown
KeyDone(c, ok) ==
  /\ conn[c].st = "key"
  /\ IF ok
       THEN Commit([Cur EXCEPT !.privatekey = "key", !.conn[c].st = "url"])
       ELSE Commit(rejectConnect([Cur EXCEPT !.conn[c].st = "failed"], c))

\* api._wsStart settles: with a URL, or with an error
UrlDone(c, ok) ==
  /\ conn[c].st = "url"
  /\ IF ok
       THEN Commit(createTransport(Cur, c))
       ELSE Commit(rejectConnect([Cur EXCEPT !.conn[c].st = "failed"], c))

\* transport c opens; the server behind it starts from its default
\* subscriptions and sends its hello
WsOpen(c, dflt) ==
  /\ conn[c].st = "opening"
  /\ Commit(onOpen([Cur EXCEPT !.conn[c].st = "open",
                               !.conn[c].subs = dflt,
                               !.conn[c].inbox =
                                 <<[NoMsg EXCEPT !.type = "hello"]>>],
                   c))

\* transport c raises an error; its close event is still to come
WsError(c) ==
  /\ conn[c].st \in {"opening", "aborting", "open"}
  /\ Commit(onError([Cur EXCEPT !.conn[c].st = "errored",
                                !.conn[c].inbox = <<>>], c))

\* transport c closes
WsClose(c) ==
  /\ conn[c].st \in {"open", "closing", "errored"}
  /\ Commit(onClose([Cur EXCEPT !.conn[c].st = "closed",
                                !.conn[c].inbox = <<>>], c))

\* transport c delivers its next message (onMessage)
Deliver(c, env) ==
  /\ conn[c].st \in {"open", "closing"}
  /\ conn[c].inbox # <<>>
  /\ LET s == onMessage([Cur EXCEPT !.conn[c].inbox = Tail(@)], c,
                        Head(conn[c].inbox), env)
     IN  EnvOk(s, env) /\ Commit(s)

\* the caller sends a request of its own
SendAndWait(env) ==
  LET s == sendAndWait(Cur, "me", "none", 0, env)
  IN  EnvOk(s, env) /\ Commit(s)

\* the limiter grants a token to a request that waited for one: sendRaw resumes
LimiterGrant(r, ok) ==
  /\ req[r].st = "queued"
  /\ LET env == [errs |-> IF ok THEN {} ELSE {r}, lim |-> {}]
         s1 == wsSend(Cur, r, env)
         s == IF req[r].settle = "pending" /\ s1.req[r].settle = "rejected"
                THEN helloSettled(s1, r, NoMsg, env) ELSE s1
     IN  EnvOk(s, env) /\ Commit(s)

\* the caller calls forceClose()
ForceClose == Commit(forceClose(Cur))

\* the server behind the open transport c sends a message of its own accord
ServerPush(c, m) ==
  /\ conn[c].st = "open"
  /\ Len(conn[c].inbox) < MaxInbox
  /\ Commit([Cur EXCEPT !.conn[c].inbox = Append(@, m)])

\* ------------------------------------------------------- specifications
\* The state after construction. connectionState starts as "connecting".
InitWith(optionKinds, maxSecs) ==
  /\ connectionState = "connecting"
  /\ messageId = InitialMessageId
  /\ messageResponses = [i \in MsgIds |-> 0]
  /\ reconnectionTimer = NoTimer
  /\ connectDebounceMs = DEFAULT_CONNECT_DEBOUNCE_MS
  /\ forceClosing = FALSE
  /\ ws = 0
  /\ isOpened = FALSE
  /\ isClosed = FALSE
  /\ privatekey = "none"
  /\ initSubscriptions \in SUBSET Subs
  /\ \E o \in maxSecs :
       maxReconnectSecs = Max(IF o = 0 THEN DefaultMaxReconnectSecs ELSE o, 1)
  /\ options \in optionKinds
  /\ conn = [c \in ConnIds |-> NoConn]
  /\ req = [r \in ReqIds |-> NoReq]
  /\ hello = [c \in ConnIds |-> NoHello]
  /\ emits = <<>>
  /\ call = NoCall

\* The caller calls connect() once, as documented ("from this point onwards,
\* the client will take over responsibility for auto-reconnecting").
ConnectOnce ==
  /\ nAttempts(Cur) = 0
  /\ Connect

\* The reconnect timer runs for a second at least, and the close event that
\* follows a transport's error event arrives within that second.
TimerFireAfterClose ==
  /\ \A c \in ConnIds : conn[c].st \notin {"errored", "aborting"}
  /\ TimerFire

\* sendAndWait() calls made so far
Calls == Cardinality({r \in ReqIds : req[r].st # "unused"})

\* no more than SpecCalls of them
WithinCalls == Calls <= SpecCalls

\* Spec: a client that authenticates with a password, against a server whose
\* default subscription set is the whole of Subs; SpecCalls sendAndWait calls.
Init == InitWith({"password"}, {2})

Next ==
  \/ ConnectOnce
  \/ TimerFireAfterClose
  \/ \E c \in ConnIds, ok \in BOOLEAN : KeyDone(c, ok)
  \/ \E c \in ConnIds, ok \in BOOLEAN : UrlDone(c, ok)
  \/ \E c \in ConnIds : WsOpen(c, Subs)
  \/ \E c \in ConnIds : WsError(c)
  \/ \E c \in ConnIds : WsClose(c)
  \/ \E c \in ConnIds, env \in Envs : Deliver(c, env) /\ WithinCalls'
  \/ \E env \in Envs : SendAndWait(env) /\ WithinCalls'
  \/ \E r \in ReqIds, ok \in BOOLEAN : LimiterGrant(r, ok)
  \/ ForceClose

Spec == Init /\ [][Next]_vars

\* SpecSync: guest and password clients against servers with any default
\* subscription set; MaxReq sendAndWait calls, enough for a subscription sync
\* that a reconnection overtakes.
InitSync == InitWith(OptionKinds, OptMaxReconnectSecs)

NextSync ==
  \/ ConnectOnce
  \/ TimerFireAfterClose
  \/ \E c \in ConnIds, ok \in BOOLEAN : KeyDone(c, ok)
  \/ \E c \in ConnIds, ok \in BOOLEAN : UrlDone(c, ok)
  \/ \E c \in ConnIds, dflt \in SUBSET Subs : WsOpen(c, dflt)
  \/ \E c \in ConnIds : WsError(c)
  \/ \E c \in ConnIds : WsClose(c)
  \/ \E c \in ConnIds, env \in Envs : Deliver(c, env)
  \/ \E env \in Envs : SendAndWait(env)
  \/ \E r \in ReqIds, ok \in BOOLEAN : LimiterGrant(r, ok)
  \/ ForceClose

SpecSync == InitSync /\ [][NextSync]_vars

\* SpecPush: Spec against a server that also sends messages nobody asked for:
\* keepalives, block events and messages without a type. The caller sends no
\* request of its own: the requests are those of the handshakes.
NextPush ==
  \/ ConnectOnce
  \/ TimerFireAfterClose
  \/ \E c \in ConnIds, ok \in BOOLEAN : KeyDone(c, ok)
  \/ \E c \in ConnIds, ok \in BOOLEAN : UrlDone(c, ok)
  \/ \E c \in ConnIds : WsOpen(c, Subs)
  \/ \E c \in ConnIds : WsError(c)
  \/ \E c \in ConnIds : WsClose(c)
  \/ \E c \in ConnIds, env \in Envs : Deliver(c, env) /\ WithinCalls'
  \/ \E r \in ReqIds, ok \in BOOLEAN : LimiterGrant(r, ok)
  \/ ForceClose
  \/ \E c \in ConnIds, m \in Pushes : ServerPush(c, m)

SpecPush == Init /\ [][NextPush]_vars

\* SpecFrames: SpecPush against a server that also sends frames that are not
\* JSON text.
NextFrames ==
  \/ ConnectOnce
  \/ TimerFireAfterClose
  \/ \E c \in ConnIds, ok \in BOOLEAN : KeyDone(c, ok)
  \/ \E c \in ConnIds, ok \in BOOLEAN : UrlDone(c, ok)
  \/ \E c \in ConnIds : WsOpen(c, Subs)
  \/ \E c \in ConnIds : WsError(c)
  \/ \E c \in ConnIds : WsClose(c)
  \/ \E c \in ConnIds, env \in Envs : Deliver(c, env) /\ WithinCalls'
  \/ \E r \in ReqIds, ok \in BOOLEAN : LimiterGrant(r, ok)
  \/ ForceClose
  \/ \E c \in ConnIds, m \in Frames : ServerPush(c, m)

SpecFrames == Init /\ [][NextFrames]_vars

\* What the event loop and the network guarantee. A timer
\* that is set fires; the key derivation and the ws/start exchange settle, one
\* way or the other; a transport that has raised an error closes.
Fairness ==
  /\ WF_vars(TimerFireAfterClose)
  /\ WF_vars(\E c \in ConnIds, ok \in BOOLEAN : KeyDone(c, ok))
  /\ WF_vars(\E c \in ConnIds, ok \in BOOLEAN : UrlDone(c, ok))
  /\ WF_vars(\E c \in ConnIds : conn[c].st = "errored" /\ WsClose(c))

\* SpecRetry: a client under these guarantees whose caller sends no request of
\* its own, so that the requests are those of the handshakes.
NextRetry ==
  \/ ConnectOnce
  \/ TimerFireAfterClose
  \/ \E c \in ConnIds, ok \in BOOLEAN : KeyDone(c, ok)
  \/ \E c \in ConnIds, ok \in BOOLEAN : UrlDone(c, ok)
  \/ \E c \in ConnIds : WsOpen(c, Subs)
  \/ \E c \in ConnIds : WsError(c)
  \/ \E c \in ConnIds : WsClose(c)
  \/ \E c \in ConnIds, env \in Envs : Deliver(c, env) /\ WithinCalls'
  \/ \E r \in ReqIds, ok \in BOOLEAN : LimiterGrant(r, ok)
  \/ ForceClose

SpecRetry == Init /\ [][NextRetry]_vars /\ Fairness

\* What the event loop, the network and the limiter guarantee to a handshake
\* besides: a message that has arrived is dispatched, the limiter grants a
\* token to a request that waits for one, and a transport on which close()
\* has been called closes.
FairnessHandshake ==
  /\ Fairness
  /\ WF_vars(\E c \in ConnIds, env \in Envs : Deliver(c, env) /\ WithinCalls')
  /\ WF_vars(\E r \in ReqIds, ok \in BOOLEAN : LimiterGrant(r, ok))
  /\ WF_vars(\E c \in ConnIds : conn[c].st = "closing" /\ WsClose(c))

\* SpecHandshake: the client of SpecRetry under these guarantees as well
SpecHandshake == Init /\ [][NextRetry]_vars /\ FairnessHandshake

\* SpecConnect: a caller that calls connect() whenever it likes, as often as
\* the model has room for attempts, and sends no request of its own.
NextConnect ==
  \/ Connect
  \/ TimerFireAfterClose
  \/ \E c \in ConnIds, ok \in BOOLEAN : KeyDone(c, ok)
  \/ \E c \in ConnIds, ok \in BOOLEAN : UrlDone(c, ok)
  \/ \E c \in ConnIds : WsOpen(c, Subs)
  \/ \E c \in ConnIds : WsError(c)
  \/ \E c \in ConnIds : WsClose(c)
  \/ \E c \in ConnIds, env \in Envs : Deliver(c, env) /\ WithinCalls'
  \/ \E r \in ReqIds, ok \in BOOLEAN : LimiterGrant(r, ok)
  \/ ForceClose

SpecConnect == Init /\ [][NextConnect]_vars

\* SpecKeys: the client of SpecRetry with any kind of options: none to
\* authenticate with, a password, or a private key of its own.
InitKeys == InitWith(AuthKinds, {2})

SpecKeys == InitKeys /\ [][NextRetry]_vars

\* ------------------------------------------- errors (errors/KristError.ts)
\* the error codes coerceKristError knows, with the class it builds for each
ErrorClasses ==
  [missing_parameter |-> "KristErrorMissingParameter",
   invalid_parameter |-> "KristErrorInvalidParameter",
   not_found |-> "KristErrorNotFound",
   address_not_found |-> "KristErrorAddressNotFound",
   block_not_found |-> "KristErrorBlockNotFound",
   transaction_not_found |-> "KristErrorTransactionNotFound",
   name_not_found |-> "KristErrorNameNotFound",
   name_taken |-> "KristErrorNameTaken",
   not_name_owner |-> "KristErrorNotNameOwner",
   rate_limit_hit |-> "KristErrorRateLimit",
   invalid_websocket_token |-> "KristErrorInvalidWebSocketToken",
   auth_failed |-> "KristErrorAuthFailed",
   server_error |-> "KristErrorServerError"]

ErrorCodes == DOMAIN ErrorClasses

\* the bodies a server sends: ok, error (of type string, number, or missing)
\* and message
Replies ==
  {d \in [ok : BOOLEAN, error : ErrorCodes \cup {"teapot", ""},
          errorType : {"string", "number", "undefined"}, message : {"text"}] :
     d.errorType # "string" => d.error = ""}

\* a value that is no instance of KristError: the parsed body itself
Raw(d) == [error |-> d.error, message |-> d.message, class |-> "Object"]

\* new KristErrorRateLimit()
KristErrorRateLimit ==
  [error |-> "rate_limit_hit", message |-> "Rate limit hit!",
   class |-> "KristErrorRateLimit"]

\* JavaScript's truth value of d.error
Truthy(d) == d.errorType = "number" \/ (d.errorType = "string" /\ d.error # "")

\* coerceKristError for a parsed body
coerceKristError(e) ==
  IF ~Truthy(e) \/ e.errorType # "string" THEN Raw(e)
  ELSE IF e.error = "rate_limit_hit" THEN KristErrorRateLimit
  ELSE IF e.error \in ErrorCodes
    THEN [error |-> e.error, message |-> e.message, class |-> ErrorClasses[e.error]]
  ELSE [error |-> e.message, message |-> e.message, class |-> "KristError"]

\* KristApi.request from the reply on: HTTP status and parsed body
request(status, data) ==
  IF status = 429 THEN [settle |-> "rejected", value |-> KristErrorRateLimit]
  ELSE IF ~data.ok \/ Truthy(data)
    THEN [settle |-> "rejected", value |-> coerceKristError(data)]
  ELSE [settle |-> "resolved", value |-> Raw(data)]

\* what the caller of sendAndWait gets when handleMessage dispatches the reply
\* to its request: handler.resolve(msg) or handler.reject(msg)
sendAndWaitOutcome(msg) ==
  IF msg.ok /\ ~Truthy(msg)
    THEN [settle |-> "resolved", value |-> Raw(msg)]
    ELSE [settle |-> "rejected", value |-> Raw(msg)]

\* a library call: its outcome is recorded, the client is left alone
LibCall(c) == call' = c /\ UNCHANGED clientVars

\* the caller makes a REST request and the server answers it
Request(status, data) ==
  LibCall([fn |-> "request", status |-> status, data |-> data,
           out |-> request(status, data)])

\* the caller makes a WebSocket request and the server answers it
WsRequest(msg) ==
  LibCall([fn |-> "sendAndWait", status |-> 200, data |-> msg,
           out |-> sendAndWaitOutcome(msg)])

\* ------------------------------------- wallet formats (util/validation.ts)
\* A string is a sequence of pieces. A piece is a literal text or the digest
\* of a string under a named hash function: digests of different strings, or
\* under different functions, are different pieces.
Lit(text) == IF text = "" THEN <<>> ELSE <<[fn |-> "", text |-> text, arg |-> <<>>]>>

\* the digest fn computes for string x
Digest(fn, x) == <<[fn |-> fn, text |-> "", arg |-> x]>>

\* the state of one run of a wallet format: the value of the expression
\* evaluated last and the number of calls of the hash function so far
Start == [val |-> <<>>, n |-> 0]

\* await sha256Fn(x), as call number st.n + 1
sha256Fn(fn, st, x) == [val |-> Digest(fn, x), n |-> st.n + 1]

\* KRIST_WALLET_FORMATS.kristwallet
kristwallet(fn, password) ==
  LET a == sha256Fn(fn, Start, Lit("KRISTWALLET") \o password)
  IN  [a EXCEPT !.val = @ \o Lit("-000")]

\* username || "": a missing username counts as the empty string
OrEmpty(username) == IF username.given THEN username.v ELSE <<>>

\* KRIST_WALLET_FORMATS.kristwallet_username
kristwallet_username(fn, password, username) ==
  LET u == sha256Fn(fn, Start, OrEmpty(username))
      q == sha256Fn(fn, u, password)
  IN  sha256Fn(fn, q, u.val \o Lit("^") \o q.val)

\* KRIST_WALLET_FORMATS.kristwallet_username_appendhashes
kristwallet_username_appendhashes(fn, password, username) ==
  LET u == sha256Fn(fn, Start, OrEmpty(username))
      q == sha256Fn(fn, u, password)
      b == sha256Fn(fn, q, u.val \o Lit("^") \o q.val)
      a == sha256Fn(fn, b, Lit("KRISTWALLETEXTENSION") \o b.val)
  IN  [a EXCEPT !.val = @ \o Lit("-000")]

\* KRIST_WALLET_FORMATS.jwalelset with one call of sha256Fn fewer
jwalelsetOneCallFewer(fn, password) ==
  LET h1 == sha256Fn(fn, Start, password)
      h2 == sha256Fn(fn, h1, h1.val)
      h3 == sha256Fn(fn, h2, h2.val)
      h4 == sha256Fn(fn, h3, h3.val)
      h5 == sha256Fn(fn, h4, h4.val)
      h6 == sha256Fn(fn, h5, h5.val)
      h7 == sha256Fn(fn, h6, h6.val)
      h8 == sha256Fn(fn, h7, h7.val)
      h9 == sha256Fn(fn, h8, h8.val)
      h10 == sha256Fn(fn, h9, h9.val)
      h11 == sha256Fn(fn, h10, h10.val)
      h12 == sha256Fn(fn, h11, h11.val)
      h13 == sha256Fn(fn, h12, h12.val)
      h14 == sha256Fn(fn, h13, h13.val)
      h15 == sha256Fn(fn, h14, h14.val)
      h16 == sha256Fn(fn, h15, h15.val)
  IN  sha256Fn(fn, h16, h16.val)

\* KRIST_WALLET_FORMATS.jwalelset: the calls of sha256Fn as the source nests
\* them, innermost first (four lines of four calls and one of two)
jwalelset(fn, password) ==
  LET h1 == sha256Fn(fn, Start, password)
      h2 == sha256Fn(fn, h1, h1.val)
      h3 == sha256Fn(fn, h2, h2.val)
      h4 == sha256Fn(fn, h3, h3.val)
      h5 == sha256Fn(fn, h4, h4.val)
      h6 == sha256Fn(fn, h5, h5.val)
      h7 == sha256Fn(fn, h6, h6.val)
      h8 == sha256Fn(fn, h7, h7.val)
      h9 == sha256Fn(fn, h8, h8.val)
      h10 == sha256Fn(fn, h9, h9.val)
      h11 == sha256Fn(fn, h10, h10.val)
      h12 == sha256Fn(fn, h11, h11.val)
      h13 == sha256Fn(fn, h12, h12.val)
      h14 == sha256Fn(fn, h13, h13.val)
      h15 == sha256Fn(fn, h14, h14.val)
      h16 == sha256Fn(fn, h15, h15.val)
      h17 == sha256Fn(fn, h16, h16.val)
  IN  sha256Fn(fn, h17, h17.val)

\* KRIST_WALLET_FORMATS.api
api(fn, password) == [Start EXCEPT !.val = password]

KRIST_WALLET_FORMAT_NAMES ==
  {"kristwallet", "api", "kristwallet_username_appendhashes",
   "kristwallet_username", "jwalelset"}

\* KRIST_WALLET_FORMATS with the suffix of kristwallet left out
KRIST_WALLET_FORMATS_NoSuffix(format, fn, password, username) ==
  IF format = "kristwallet" THEN sha256Fn(fn, Start, Lit("KRISTWALLET") \o password)
  ELSE IF format = "kristwallet_username_appendhashes"
    THEN kristwallet_username_appendhashes(fn, password, username)
  ELSE IF format = "kristwallet_username"
    THEN kristwallet_username(fn, password, username)
  ELSE IF format = "jwalelset" THEN jwalelset(fn, password)
  ELSE api(fn, password)

\* KRIST_WALLET_FORMATS[format](sha256Fn, password, username)
KRIST_WALLET_FORMATS(format, fn, password, username) ==
  IF format = "kristwallet" THEN kristwallet(fn, password)
  ELSE IF format = "kristwallet_username_appendhashes"
    THEN kristwallet_username_appendhashes(fn, password, username)
  ELSE IF format = "kristwallet_username"
    THEN kristwallet_username(fn, password, username)
  ELSE IF format = "jwalelset" THEN jwalelset(fn, password)
  ELSE api(fn, password)

\* the parameter lists of the five functions: for each parameter, whether it
\* is declared with a default value
Parameters ==
  [kristwallet |-> <<TRUE, FALSE>>,
   kristwallet_username |-> <<TRUE, FALSE, FALSE>>,
   kristwallet_username_appendhashes |-> <<TRUE, FALSE, FALSE>>,
   jwalelset |-> <<TRUE, FALSE>>,
   api |-> <<FALSE, FALSE>>]

\* What the compiler makes of a parameter with a default value is decided by
\* the compile target, which the sources do not fix: "native" keeps the
\* default in the parameter list, "downlevel" moves it into the body.
Builds == {"native", "downlevel"}

\* Function.length: the number of parameters before the first one that has a
\* default value in the parameter list
length(params, build) ==
  IF build = "downlevel" THEN Len(params)
  ELSE Cardinality({i \in DOMAIN params : \A j \in 1..i : ~params[j]})

\* the arguments a caller may leave out
NoFormat == [given |-> FALSE, v |-> ""]
NoUsername == [given |-> FALSE, v |-> <<>>]
NoFunction == [given |-> FALSE, v |-> ""]
Given(x) == [given |-> TRUE, v |-> x]

\* applyWalletFormat. sha: the function passed as sha256Fn, "sha256" being the
\* default and "" something that is no function.
applyWalletFormat(format, password, username, sha) ==
  LET f == IF ~format.given \/ format.v = "" THEN "kristwallet" ELSE format.v
      fn == IF sha.given THEN sha.v ELSE "sha256"
      threw == [settle |-> "rejected", val |-> <<>>, n |-> 0]
  IN  IF f \notin KRIST_WALLET_FORMAT_NAMES THEN threw
      ELSE IF password = <<>> THEN threw
      ELSE IF username.given /\ username.v = <<>> THEN threw
      ELSE IF fn = "" THEN threw
      ELSE LET r == KRIST_WALLET_FORMATS(f, fn, password, username)
           IN  [settle |-> "resolved", val |-> r.val, n |-> r.n]

\* formatNeedsUsername, in a given build
formatNeedsUsername(format, build) ==
  IF format \notin KRIST_WALLET_FORMAT_NAMES
    THEN [settle |-> "threw", val |-> FALSE]
    ELSE [settle |-> "returned", val |-> length(Parameters[format], build) = 3]

\* the arguments of the calls
Formats == {NoFormat} \cup {Given(f) : f \in KRIST_WALLET_FORMAT_NAMES \cup {"", "not-exist"}}
Passwords == {Lit(""), Lit("a"), Lit("b")}
Usernames == {NoUsername, Given(Lit("")), Given(Lit("a"))}
HashFunctions == {NoFunction, Given("sha512"), Given("")}

\* the caller applies a wallet format
ApplyWalletFormat(format, password, username, sha) ==
  LibCall([fn |-> "applyWalletFormat",
           out |-> applyWalletFormat(format, password, username, sha),
           password |-> password, username |-> username, format |-> format,
           sha |-> sha])

\* the caller asks whether a format needs a username
FormatNeedsUsername(format, build) ==
  LibCall([fn |-> "formatNeedsUsername",
           out |-> formatNeedsUsername(format, build),
           format |-> format, build |-> build])

\* SpecLib: the library functions outside the client, called with arguments
\* and answered with replies drawn from small sets.
NextLib ==
  \/ \E d \in Replies, status \in {200, 429} : Request(status, d)
  \/ \E d \in Replies : WsRequest(d)
  \/ \E f \in Formats, p \in Passwords, u \in Usernames, h \in HashFunctions :
       ApplyWalletFormat(f, p, u, h)
  \/ \E f \in KRIST_WALLET_FORMAT_NAMES \cup {"", "not-exist"}, b \in Builds :
       FormatNeedsUsername(f, b)

\* a client made with no subscriptions of its own, which is never connected
InitLib == Init /\ initSubscriptions = {}

SpecLib == InitLib /\ [][NextLib]_vars

\* ----------------------------- addresses (api/ws/routes/wsAddresses.ts)
\* parseInt of a text that does not begin with a hexadecimal digit
NaN == 0 - 1
\* the empty string in a slot of chars, and a slot that was never written
Empty == 0 - 2
Undefined == 0 - 3

\* the characters 0-9 and a-z, by their codes
Base36 == (48..57) \cup (97..122)

\* hexToBase36 without the test that maps the last bytes to "e"
hexToBase36Unclamped(input) ==
  IF input = NaN THEN 0
  ELSE LET byte == 48 + (input \div 7)
       IN  IF byte > 57 THEN byte + 39 ELSE byte

\* hexToBase36: the code of the character it returns. With NaN every
\* comparison is false and String.fromCharCode(NaN) is the character of code 0.
hexToBase36(input) ==
  IF input = NaN THEN 0
  ELSE LET byte == 48 + (input \div 7)
       IN  IF byte + 39 > 122 THEN 101 ELSE IF byte > 57 THEN byte + 39 ELSE byte

\* The digests a hash function returns are NDigests strings, numbered. Of a
\* digest written in hexadecimal only the first nine pairs of digits are read.
Digests == 0..(NDigests - 1)

\* parseInt(digest.substring(2 * j, 2 + 2 * j), 16) for a hexadecimal digest
Pair(d, j) == (255 + 41 * d + d * d + 10 * j * (d + 1)) % 256

\* The functions a caller may pass as sha256Fn, sha256 being the default. Each
\* maps a key to digest seed + (a number read off the key), and a digest d to
\* digest d + add, so that rehashing goes through all digests; base64 does not
\* write its digests in hexadecimal.
HashTable ==
  [sha256 |-> [hex |-> TRUE, seed |-> 0, add |-> 1],
   sha512 |-> [hex |-> TRUE, seed |-> 2, add |-> NDigests - 1],
   base64 |-> [hex |-> FALSE, seed |-> 1, add |-> 1]]

\* the number a hash function of the model reads off a key
KeyCode(key) == Len(key) + Cardinality({p \in DOMAIN key : key[p].text = "b"})

\* await sha256Fn(key) and await sha256Fn(digest)
sha256OfKey(fn, key) == (HashTable[fn].seed + KeyCode(key)) % NDigests
sha256OfDigest(fn, d) == (d + HashTable[fn].add) % NDigests

\* doubleSha256 of a key and of a digest
doubleSha256OfKey(fn, key) == sha256OfDigest(fn, sha256OfKey(fn, key))
doubleSha256(fn, d) == sha256OfDigest(fn, sha256OfDigest(fn, d))

\* parseInt(hash.substring(2 * j, 2 + 2 * j), 16)
substring(fn, d, j) == IF HashTable[fn].hex THEN Pair(d, j) ELSE NaN

\* parseInt(chars[index], 16)
parseInt(slot) == IF slot \in 0..255 THEN slot ELSE NaN

\* argument values: a string, a number, or nothing
Str(v) == [v |-> v, t |-> "string"]
Num == [v |-> <<>>, t |-> "number"]
Undef == [v |-> <<>>, t |-> "undefined"]

\* argStringNonEmpty passes
argStringNonEmpty(val) == val.t = "string" /\ val.v # <<>>

\* One call of applyWalletFormat, makeV2Address or calculateAddress: its
\* arguments, its position (pc), the outcome of applyWalletFormat (result),
\* the locals of makeV2Address and the number n of calls of the hash function
\* makeV2Address has made so far.
Idle ==
  [fn |-> "none", i |-> 0, out |-> <<>>, n |-> 0, password |-> Undef,
   username |-> NoUsername, format |-> NoFormat, sha |-> NoFunction,
   pc |-> "idle", prefix |-> Undef,
   result |-> [settle |-> "none", val |-> <<>>, n |-> 0],
   chars |-> <<>>, chain |-> <<>>, hash |-> 0]

\* the calls in progress
Runs == IF call.fn = "derive" THEN call.runs ELSE <<Idle, Idle>>

\* a call begins
Called(fn, password, username, format, prefix, sha) ==
  [Idle EXCEPT !.pc = "called", !.fn = fn, !.password = password,
               !.username = username, !.format = format, !.prefix = prefix,
               !.sha = sha]

\* the function passed as sha256Fn, or the default
FnOf(sha) == IF sha.given THEN sha.v ELSE "sha256"

\* the address prefix passed, or the default "k"
PrefixOf(prefix) == IF prefix.t = "undefined" THEN Str(<<107>>) ELSE prefix

\* makeV2Address up to its first await: the arguments are tested, the locals
\* set and the key hashed twice
makeV2Address(r, key, addressPrefix, sha) ==
  IF \/ ~argStringNonEmpty(key)
     \/ ~argStringNonEmpty(PrefixOf(addressPrefix))
     \/ FnOf(sha) = ""
    THEN [r EXCEPT !.pc = "rejected"]
    ELSE [r EXCEPT !.pc = "fill",
                   !.chars = [s \in (0..8) \cup {NaN} |->
                                IF s = NaN THEN Undefined ELSE Empty],
                   !.chain = PrefixOf(addressPrefix).v,
                   !.hash = doubleSha256OfKey(FnOf(sha), key.v),
                   !.i = 0,
                   !.n = @ + 2]

\* one round of the first loop of makeV2Address, for the call in slot k
fill(runs, k) ==
  LET r == runs[k]
      last == r.i + 1 > 8
  IN  [r EXCEPT !.chars[r.i] = substring(FnOf(r.sha), r.hash, 0),
                !.hash = doubleSha256(FnOf(r.sha), r.hash),
                !.n = @ + 2,
                !.i = IF last THEN 0 ELSE r.i + 1,
                !.pc = IF last THEN "draw" ELSE "fill"]

\* the slot of chars the second loop draws for cursor i
index(r) ==
  LET p == substring(FnOf(r.sha), r.hash, r.i)
  IN  IF p = NaN THEN NaN ELSE p % 9

\* one round of the second loop that keeps chain where all calls share it:
\* the address returned is what the first caller's call has put there when
\* that call is within makeV2Address
drawSharedChain(runs, k) ==
  LET r == runs[k]
      last == r.i + 1 > 8
      chain == Append(r.chain, hexToBase36(parseInt(r.chars[index(r)])))
      shared == IF runs[1].pc \in {"fill", "draw"} THEN runs[1].chain ELSE chain
  IN  IF r.chars[index(r)] = Empty
        THEN [r EXCEPT !.hash = sha256OfDigest(FnOf(r.sha), r.hash), !.n = @ + 1]
        ELSE [r EXCEPT !.chain = chain,
                       !.chars[index(r)] = Empty,
                       !.i = r.i + 1,
                       !.pc = IF last THEN "done" ELSE "draw",
                       !.out = IF last THEN shared ELSE <<>>]

\* one round of the second loop that takes a consumed slot for a fresh one
drawNoRehash(runs, k) ==
  LET r == runs[k]
      last == r.i + 1 > 8
      chain == Append(r.chain, hexToBase36(parseInt(r.chars[index(r)])))
  IN  [r EXCEPT !.chain = chain,
                !.chars[index(r)] = Empty,
                !.i = r.i + 1,
                !.pc = IF last THEN "done" ELSE "draw",
                !.out = IF last THEN chain ELSE <<>>]

\* one round of the second loop of makeV2Address, for the call in slot k
draw(runs, k) ==
  LET r == runs[k]
      last == r.i + 1 > 8
      chain == Append(r.chain, hexToBase36(parseInt(r.chars[index(r)])))
  IN  IF r.chars[index(r)] = Empty
        THEN [r EXCEPT !.hash = sha256OfDigest(FnOf(r.sha), r.hash), !.n = @ + 1]
        ELSE [r EXCEPT !.chain = chain,
                       !.chars[index(r)] = Empty,
                       !.i = r.i + 1,
                       !.pc = IF last THEN "done" ELSE "draw",
                       !.out = IF last THEN chain ELSE <<>>]

\* applyWalletFormat for the call r, a being what the function makes of
\* arguments that are strings. A password that is no string is refused by
\* argStringNonEmpty, as the empty one is.
applyWalletFormatCalled(r, a) ==
  IF r.password.t # "string" THEN [r EXCEPT !.pc = "rejected"]
  ELSE [r EXCEPT !.pc = "returned", !.result = a]

\* the format calculateAddress applies: the default of walletFormat stands
\* in for a format left out only, not for an empty one
WalletFormatOf(format) == IF format.given THEN format.v ELSE "kristwallet"

\* calculateAddress up to its first await, a being the outcome of its call
\* of applyWalletFormat
calculateAddress(r, a) ==
  IF \/ ~argStringNonEmpty(r.password)
     \/ (r.username.given /\ r.username.v = <<>>)
     \/ WalletFormatOf(r.format) \notin KRIST_WALLET_FORMAT_NAMES
     \/ ~argStringNonEmpty(PrefixOf(r.prefix))
     \/ FnOf(r.sha) = ""
    THEN [r EXCEPT !.pc = "rejected"]
    ELSE [r EXCEPT !.pc = "keyed", !.result = a]

\* the arguments of the calls: the first caller tries everything, the second
\* makes a few calls that succeed
Keys(k) ==
  IF k = 1 THEN {Str(Lit("")), Str(Lit("a")), Str(Lit("b")), Num}
  ELSE {Str(Lit("a"))}
Prefixes(k) ==
  IF k = 1 THEN {Undef, Str(<<116>>), Str(<<116, 116>>), Str(<<>>), Num}
  ELSE {Undef}
AddressHashFunctions(k) ==
  IF k = 1 THEN {NoFunction, Given("sha512"), Given("base64"), Given("")}
  ELSE {NoFunction, Given("sha512")}
AddressFormats(k) ==
  IF k = 1 THEN {NoFormat, Given(""), Given("not-exist"), Given("api"),
                 Given("kristwallet_username")}
  ELSE {Given("kristwallet_username")}
AddressUsernames(k) == IF k = 1 THEN Usernames ELSE {NoUsername}

\* the calls the model follows side by side
Callers == {1, 2}

\* the calls change, the client is left alone
Derive(runs) == LibCall([fn |-> "derive", runs |-> runs])

\* caller k, who has made no call yet, makes one: run is the call at its
\* first await, or at its end when it has none
Begin(k, run) ==
  /\ Runs[k].pc = "idle"
  /\ Derive([Runs EXCEPT ![k] = run])

\* a caller applies a wallet format
ApplyWalletFormatCall(k, format, password, username, sha) ==
  Begin(k, applyWalletFormatCalled(
             Called("applyWalletFormat", password, username, format, Undef, sha),
             applyWalletFormat(format, password.v, username, sha)))

\* a caller makes an address from a key
MakeV2Address(k, key, prefix, sha) ==
  Begin(k, makeV2Address(
             Called("makeV2Address", key, NoUsername, NoFormat, prefix, sha),
             key, prefix, sha))

\* a caller makes an address from a password
CalculateAddress(k, password, username, format, prefix, sha) ==
  Begin(k, calculateAddress(
             Called("calculateAddress", password, username, format, prefix, sha),
             applyWalletFormat(Given(WalletFormatOf(format)), password.v,
                               username, sha)))

\* applyWalletFormat has returned the private key to calculateAddress, which
\* calls makeV2Address with it
Keyed(k) ==
  /\ Runs[k].pc = "keyed"
  /\ Derive([Runs EXCEPT ![k] = makeV2Address(Runs[k], Str(Runs[k].result.val),
                                              Runs[k].prefix, Runs[k].sha)])

\* hexToBase36 is applied, by itself, to the number parseInt made of a slot
HexToBase36(input) ==
  /\ call = NoCall
  /\ LibCall([fn |-> "hexToBase36", out |-> hexToBase36(input), input |-> input])

\* the hash function answers one call in progress, which goes on to its next await
Fill(k) ==
  /\ Runs[k].pc = "fill"
  /\ Runs[k].n < MaxHashCalls
  /\ Derive([Runs EXCEPT ![k] = fill(Runs, k)])

Draw(k) ==
  /\ Runs[k].pc = "draw"
  /\ Runs[k].n < MaxHashCalls
  /\ Derive([Runs EXCEPT ![k] = draw(Runs, k)])

\* SpecAddress: two callers derive keys and addresses side by side, each
\* call of makeV2Address advancing from one await to the next.
NextAddress ==
  \/ \E k \in Callers :
       \E f \in AddressFormats(k), p \in Keys(k), u \in AddressUsernames(k),
          h \in AddressHashFunctions(k) :
         ApplyWalletFormatCall(k, f, p, u, h)
  \/ \E k \in Callers :
       \E p \in Keys(k), a \in Prefixes(k), h \in AddressHashFunctions(k) :
         MakeV2Address(k, p, a, h)
  \/ \E p \in Keys(1), u \in AddressUsernames(1), f \in AddressFormats(1),
        a \in Prefixes(1), h \in {NoFunction, Given("")} :
       CalculateAddress(1, p, u, f, a, h)
  \/ \E input \in (0..255) \cup {NaN} : HexToBase36(input)
  \/ \E k \in Callers : Keyed(k)
  \/ \E k \in Callers : Fill(k)
  \/ \E k \in Callers : Draw(k)

SpecAddress == InitLib /\ [][NextAddress]_vars

\* ------------------------------------------- pagination (util/apiUtil.ts)
\* initialOptions?.limit ?? 50
DefaultLimit == 50

\* x ?? dflt
OrElse(x, dflt) == IF x = Undefined THEN dflt ELSE x

\* paginateCollection up to its first apiFn call: limit and nextOffset are
\* clamped, total starts at 0; total is what the server reports for the query
paginateCollection(limit, offset, total) ==
  [fn |-> "paginateCollection", out |-> Undefined, pc |-> "apiFn",
   limit |-> Max(OrElse(limit, DefaultLimit), 1),
   total |-> 0,
   nextOffset |-> Max(OrElse(offset, 0), 0),
   pages |-> <<>>, server |-> total]

\* one round of the loop: apiFn is called with limit and nextOffset, total is
\* taken from the response, onPageFn may cancel by returning false, nextOffset
\* advances by limit, and the loop goes on while nextOffset <= total
page(p, cancelResult) ==
  LET requested == [p EXCEPT !.pages = Append(@, p.nextOffset),
                             !.total = p.server]
      next == [requested EXCEPT !.nextOffset = @ + p.limit]
  IN  IF cancelResult = "false"
        THEN [requested EXCEPT !.pc = "returned", !.out = requested.total]
      ELSE IF next.nextOffset <= next.total THEN next
      ELSE [next EXCEPT !.pc = "returned", !.out = next.total]

\* the limits and offsets a caller gives, and the sizes of the collection
Limits == {Undefined} \cup (0..3)
Offsets == {Undefined} \cup ((0 - 1)..(MaxTotal + 1))
Totals == 0..MaxTotal

\* what onPageFn returns: false, or anything else (among which no callback)
CancelResults == {"false", "undefined"}

\* the caller paginates a collection
PaginateCollection(limit, offset, total) ==
  /\ call = NoCall
  /\ LibCall(paginateCollection(limit, offset, total))

\* the server answers the page request and onPageFn returns
Page(cancelResult) ==
  /\ call.fn = "paginateCollection"
  /\ call.pc = "apiFn"
  /\ LibCall(page(call, cancelResult))

NextPaginate ==
  \/ \E limit \in Limits, offset \in Offsets, total \in Totals :
       PaginateCollection(limit, offset, total)
  \/ \E cancelResult \in CancelResults : Page(cancelResult)

SpecPaginate == InitLib /\ [][NextPaginate]_vars

\* ------------------------------------------------------------- properties
RECURSIVE Pow2(_)
Pow2(n) == IF n = 0 THEN 1 ELSE 2 * Pow2(n - 1)

\* _connect() calls that have ended in failure
FailedAttempts == {c \in ConnIds : conn[c].st \in {"failed", "errored", "closed"}}

\* handleMessage lets inbound messages through
Accepting == ws # 0 /\ isOpened /\ ~isClosed /\ ~forceClosing

\* this step is the job in which transport c delivers the message at the head
\* of its inbox: either handleMessage drops it (nothing is emitted, nothing is
\* sent) or it emits "message" with it before anything else
DeliveredTo(c) ==
  /\ conn[c].inbox # <<>>
  /\ conn'[c].st = conn[c].st
  /\ \/ emits' = <<>> /\ conn'[c].inbox = Tail(conn[c].inbox)
     \/ /\ emits' # <<>>
        /\ emits'[1] = <<"errorInvalidMessage", Head(conn[c].inbox)>>
        /\ conn'[c].inbox = Tail(conn[c].inbox)
     \/ /\ emits' # <<>>
        /\ emits'[1][1] = "message"
        /\ emits'[1][2] = Head(conn[c].inbox)
        /\ Len(conn'[c].inbox) >= Len(conn[c].inbox) - 1
        /\ SubSeq(conn'[c].inbox, 1, Len(conn[c].inbox) - 1) = Tail(conn[c].inbox)

IsResponse(m) == m.type \in {"response", "error"}

\* the requests sendAndWait creates in this step
Issued == {r \in ReqIds : req[r].st = "unused" /\ req'[r].st # "unused"}

\* this step is the one in which a _connect() call creates its transport
TransportCreated == \E c \in ConnIds : conn[c].st = "url" /\ conn'[c].st = "opening"

\* this step is the one in which a _connect() call begins
AttemptBegins == \E c \in ConnIds : conn[c].st = "unused" /\ conn'[c].st # "unused"

\* C1: once forceClose() has been called, no reconnect timer starts a new
\* connection attempt, whatever close or error events follow.
C1_NoReconnectAfterForceClose ==
  [][forceClosing =>
       \A c \in ConnIds :
         ~(conn[c].st = "unused" /\ conn'[c].st # "unused"
           /\ conn'[c].origin = "timer")]_vars

\* C2: after k consecutive failed connection attempts with no handshake
\* received, at whatever stage each failed, the reconnect timer that is
\* pending runs for min(initial * 2^(k-1), max).
C2_DelayDoublesPerFailure ==
  LET k == Cardinality(FailedAttempts)
  IN  ( /\ ~forceClosing
        /\ reconnectionTimer.pending
        /\ \A c \in ConnIds : hello[c].st = "none"
        /\ \A c \in ConnIds : conn[c].st = "unused" \/ c \in FailedAttempts
        /\ k >= 1 )
      => reconnectionTimer.delay =
           Min(DEFAULT_CONNECT_DEBOUNCE_MS * Pow2(k - 1), maxReconnectSecs * 1000)

\* C3: the reconnect delay goes back towards its initial value only in a step
\* in which a handshake (hello) message is received; obtaining a URL, creating
\* a transport or opening it leaves the accumulated delay unchanged.
C3_DelayResetOnlyByHandshake ==
  [][connectDebounceMs' < connectDebounceMs =>
       \E c \in ConnIds : hello[c].st = "none" /\ hello'[c].st # "none"]_vars

\* C4: while forceClose() has not been called, every transport close event and
\* every transport error event sets the connection state to "disconnected" and
\* leaves a reconnect timer pending.
C4_CloseOrErrorSchedulesReconnect ==
  [][(/\ ~forceClosing
      /\ \E c \in ConnIds : /\ conn'[c].st # conn[c].st
                            /\ conn'[c].st \in {"errored", "closed"})
     => (connectionState' = "disconnected" /\ reconnectionTimer'.pending)]_vars

\* C5: "connected" is entered and ready is emitted only for the handshake of
\* the transport that is currently open, after every unsubscribe and subscribe
\* request of that handshake's sync has been answered successfully; the state
\* change to "connected" comes right before ready.
C5_ReadyOnlyAfterSync ==
  \A i \in 1..Len(emits) :
    /\ emits[i][1] = "ready" =>
         LET h == emits[i][2]
         IN  /\ ws = h
             /\ conn[h].st = "open"
             /\ \A r \in ReqIds :
                  (req[r].owner = h /\ req[r].kind \in {"subscribe", "unsubscribe"})
                    => req[r].settle = "resolved"
             /\ i > 1
             /\ emits[i - 1][1] = "state"
             /\ emits[i - 1][2] = "connected"
    /\ (emits[i][1] = "state" /\ emits[i][2] = "connected") =>
         (i < Len(emits) /\ emits[i + 1][1] = "ready")

\* C6: at the moment ready is emitted for a handshake, the server's
\* subscription set for that handshake's connection equals the desired set.
C6_ReadyWithDesiredSubscriptions ==
  \A i \in 1..Len(emits) :
    emits[i][1] = "ready" => conn[emits[i][2]].subs = initSubscriptions

\* C7: no two requests that are neither resolved nor rejected share one
\* message id.
C7_PendingIdsDistinct ==
  \A r1, r2 \in ReqIds :
    (r1 # r2 /\ req[r1].settle = "pending" /\ req[r2].settle = "pending")
      => req[r1].id # req[r2].id

\* C8 (as stated): within one connection attempt the ids sendAndWait issues
\* strictly increase, and the first id issued after a new connection attempt
\* begins is that of a fresh client. The next id issued is always
\* messageId + 1, so the counter has to be at its initial value once an attempt
\* has begun, and every id issued has to exceed the counter.
C8_FirstIdAfterAttemptBegins ==
  [][/\ AttemptBegins => messageId' = InitialMessageId
     /\ \A r \in Issued : req'[r].id > messageId]_vars

\* C8 (amended): between two transport creations the ids sendAndWait issues
\* strictly increase, each one more than the one before; the counter is reset
\* in the step that creates a transport and in no other, so that the first id
\* issued after a transport creation is that of a fresh client, while an
\* attempt that has not created its transport leaves the numbering alone.
C8_IdsIncreaseResetAtTransport ==
  [][IF TransportCreated
       THEN messageId' = InitialMessageId /\ Issued = {}
       ELSE /\ \A r \in Issued : req'[r].id = messageId + (r - Calls)
            /\ messageId' = messageId + Cardinality(Issued)]_vars

\* C8 witness: a transport has been created after the first id was issued, and
\* the request issued after it carries the first id of a fresh client again.
C8_ResetObserved ==
  \E r1, r2 \in ReqIds :
    /\ r1 < r2
    /\ req[r1].id = InitialMessageId + 1
    /\ req[r2].id = InitialMessageId + 1
    /\ \E c \in ConnIds : conn[c].st \in {"opening", "open"}

\* the head of transport c's inbox answers an id that has an entry, and this
\* step removes the entry and settles its request by the message
SettlesEntry(c) ==
  LET m == Head(conn[c].inbox)
      r == messageResponses[m.id]
  IN  /\ messageResponses'[m.id] # r
      /\ req[r].settle = "pending" =>
           req'[r].settle = IF m.ok /\ ~m.error THEN "resolved" ELSE "rejected"
      /\ req[r].settle # "pending" => req'[r].settle = req[r].settle

\* a request that has been resolved or rejected stays as it is
SettledOnce ==
  \A r \in ReqIds :
    req[r].settle \in {"resolved", "rejected"} => req'[r].settle = req[r].settle

\* C9 (as stated): whenever a response or error message arrives whose id has
\* an entry, the entry is removed and its request is resolved if ok is true
\* and no error field is present and rejected otherwise; a request is settled
\* at most once.
C9_ResponseSettlesEntry ==
  [][/\ \A c \in ConnIds :
          ( /\ DeliveredTo(c)
            /\ IsResponse(Head(conn[c].inbox))
            /\ messageResponses[Head(conn[c].inbox).id] # 0 )
          => SettlesEntry(c)
     /\ SettledOnce]_vars

\* C9 (amended): the same, for a message that arrives while the client lets
\* inbound messages through: the transport is marked open and forceClose() has
\* not been called.
C9_AcceptedResponseSettlesEntry ==
  [][/\ \A c \in ConnIds :
          ( /\ DeliveredTo(c)
            /\ Accepting
            /\ IsResponse(Head(conn[c].inbox))
            /\ messageResponses[Head(conn[c].inbox).id] # 0 )
          => SettlesEntry(c)
     /\ SettledOnce]_vars

\* C9 witness: the last job dispatched a response whose entry it removed and
\* whose request it resolved.
C9_ResponseResolved ==
  /\ emits # <<>>
  /\ emits[1][1] = "message"
  /\ IsResponse(emits[1][2])
  /\ \E r \in ReqIds :
       /\ req[r].id = emits[1][2].id
       /\ req[r].settle = "resolved"
       /\ messageResponses[req[r].id] # r

\* this step emits errorUnexpectedResponse once for the head of transport c's
\* inbox, settles nothing and leaves the map and the connection state alone
OnlySignalsUnexpected(c) ==
  LET m == Head(conn[c].inbox)
  IN  /\ emits' = << <<"message", m>>, <<"errorUnexpectedResponse", m.id>> >>
      /\ messageResponses' = messageResponses
      /\ req' = req
      /\ connectionState' = connectionState

\* C10 (as stated): a response or error message whose id has no entry causes
\* errorUnexpectedResponse to be emitted once, settles no request and leaves
\* the map of pending requests and the connection state unchanged.
C10_UnknownIdSignalled ==
  [][\A c \in ConnIds :
       ( /\ DeliveredTo(c)
         /\ IsResponse(Head(conn[c].inbox))
         /\ messageResponses[Head(conn[c].inbox).id] = 0 )
       => OnlySignalsUnexpected(c)]_vars

\* C10 (amended): the same, for a message that arrives while the client lets
\* inbound messages through: the transport is marked open and forceClose() has
\* not been called.
C10_AcceptedUnknownIdSignalled ==
  [][\A c \in ConnIds :
       ( /\ DeliveredTo(c)
         /\ Accepting
         /\ IsResponse(Head(conn[c].inbox))
         /\ messageResponses[Head(conn[c].inbox).id] = 0 )
       => OnlySignalsUnexpected(c)]_vars

\* C10 witness: the last job dispatched a response that had no entry and
\* emitted errorUnexpectedResponse for it.
C10_UnexpectedSignalled ==
  /\ Len(emits) = 2
  /\ emits[1][1] = "message"
  /\ emits[2] = <<"errorUnexpectedResponse", emits[1][2].id>>

\* this step is the close event of a transport
CloseEvent == \E c \in ConnIds : conn[c].st # "closed" /\ conn'[c].st = "closed"

\* the last job was the close event of a transport, and it left request r
\* unsettled
ClosedWithPending(r) ==
  /\ emits # <<>>
  /\ emits[1] = <<"wsClose">>
  /\ req[r].settle = "pending"

\* this step settles request r in one of the two ways sendAndWait provides:
\* its transmission throws, or a response or error message with its id is
\* dispatched while the entry of that id is r's
SettledByOwnSendOrReply(r) ==
  \/ req'[r].st = "threw" /\ req'[r].settle = "rejected"
  \/ /\ emits' # <<>>
     /\ emits'[1][1] = "message"
     /\ IsResponse(emits'[1][2])
     /\ emits'[1][2].id = req[r].id
     /\ messageResponses[req[r].id] = r

\* request r was made by the handshake of a transport that has closed since,
\* and is pending still: it was pending when that transport closed
PendingSinceClose(r) ==
  /\ req[r].owner # 0
  /\ conn[req[r].owner].st = "closed"
  /\ req[r].settle = "pending"

OnlySignalsInvalid(c) ==
  /\ emits' = << <<"errorInvalidMessage", Head(conn[c].inbox)>> >>
  /\ req' = req
  /\ messageResponses' = messageResponses
  /\ connectionState' = connectionState
  /\ hello' = hello

\* C12 (as stated): an inbound message without a type field causes exactly one
\* errorInvalidMessage signal and nothing else: no other signal, no request
\* settled, connection state unchanged.
C12_TypelessSignalled ==
  [][\A c \in ConnIds :
       (DeliveredTo(c) /\ Head(conn[c].inbox).type = "") => OnlySignalsInvalid(c)]_vars

\* C12 (amended): the same, for a message that arrives while the client lets
\* inbound messages through: the transport is marked open and forceClose() has
\* not been called. Otherwise the message is dropped without any signal.
C12_AcceptedTypelessSignalled ==
  [][\A c \in ConnIds :
       (DeliveredTo(c) /\ Head(conn[c].inbox).type = "")
         => IF Accepting THEN OnlySignalsInvalid(c)
            ELSE emits' = <<>> /\ req' = req /\ connectionState' = connectionState]_vars

\* C12 witness: the last job delivered a message without a type and emitted
\* errorInvalidMessage for it, with a request pending.
C12_TypelessDelivered ==
  /\ emits = << <<"errorInvalidMessage", Typeless>> >>
  /\ \E r \in ReqIds : req[r].settle = "pending"

\* ------------------------------------------------------------------ C13
\* the signals handleMessage emits with the message it dispatches
CarriesMessage(e) ==
  e[1] \in {"message", "event", "block", "transaction", "name", "errorInvalidMessage"}

\* the signals handleMessage emits before it returns
Synchronous(e) ==
  CarriesMessage(e) \/ e[1] \in {"keepalive", "errorUnexpectedResponse"}

\* this step emits the ready signal of the hello message of transport h
EmitsReady(h) == \E i \in DOMAIN emits' : emits'[i] = <<"ready", h>>

\* C13 (as stated): of two messages received in that order on one transport,
\* every notification caused by the first, the ready signal of a handshake
\* message included, is emitted before any notification caused by the second.
\* The hello message is the first of its transport: its ready signal is not
\* emitted in the dispatch of a later message of that transport, behind the
\* "message" signal of that message.
C13_ReadyBeforeLaterMessages ==
  [][\A c \in ConnIds :
       (DeliveredTo(c) /\ Head(conn[c].inbox).type # "hello") => ~EmitsReady(c)]_vars

\* C13 (amended): messages are dispatched one per job in the order received:
\* the signals a job emits with a message carry the message at the head of the
\* transport's inbox, and the synchronous signals are emitted by deliveries
\* only. The ready signal of a handshake is not emitted by the dispatch of the
\* hello message: it is emitted in the dispatch of a later response message,
\* behind the "message" signal of that response and the change to "connected".
C13_DispatchInOrderReadyWithReply ==
  [][/\ \A c \in ConnIds : DeliveredTo(c) =>
          \A i \in DOMAIN emits' :
            CarriesMessage(emits'[i]) => emits'[i][2] = Head(conn[c].inbox)
     /\ (\E i \in DOMAIN emits' : Synchronous(emits'[i]))
          => \E c \in ConnIds : DeliveredTo(c)
     /\ \A h \in ConnIds, i \in DOMAIN emits' :
          emits'[i] = <<"ready", h>> =>
            /\ i > 2
            /\ emits'[1][1] = "message" /\ emits'[1][2].type = "response"
            /\ emits'[i - 1][1] = "state" /\ emits'[i - 1][2] = "connected"
            /\ \E c \in ConnIds : DeliveredTo(c)]_vars

\* C13 witness: the last job dispatched a response message and emitted, behind
\* its "message" signal, the ready signal of the handshake of the transport
\* in use, while a message the server sent later is still to be delivered.
C13_ReadyBehindReply ==
  /\ ws # 0
  /\ Len(emits) = 3
  /\ emits[1][1] = "message" /\ emits[1][2].type = "response"
  /\ emits[3] = <<"ready", ws>>
  /\ conn[ws].inbox # <<>>

\* ------------------------------------------------------------------ C14
\* the reconnect timers that are pending
TimersPending ==
  (IF reconnectionTimer.pending THEN 1 ELSE 0) + reconnectionTimer.others

\* the _connect() calls that are over: the call has failed or its transport
\* has closed
Over == {c \in ConnIds : conn[c].st \in {"failed", "closed"}}

\* C14: at every moment at most one reconnect timer is pending, and a
\* disconnect, even one that raises both an error and a close event, leads to
\* one reconnect attempt: the attempts begun number at most one more than the
\* attempts that are over.
C14_OneTimerOneAttempt ==
  /\ TimersPending <= 1
  /\ nAttempts(Cur) <= Cardinality(Over) + 1

\* C14 witness: a transport has raised an error, which scheduled a reconnect,
\* and then closed, which scheduled one again (the close found the client
\* disconnected already); one timer is pending.
C14_ErrorThenCloseOneTimer ==
  /\ emits = << <<"wsClose">>, <<"state", "disconnected", "disconnected">> >>
  /\ reconnectionTimer.pending
  /\ TimersPending = 1

\* ------------------------------------------------------------------ C15
\* _connect() call c has failed: the key derivation or the ws/start exchange
\* has thrown, or its transport has failed before its handshake was complete
Failed(c) ==
  \/ conn[c].st = "failed"
  \/ conn[c].st \in {"errored", "closed"} /\ hello[c].st # "done"

Live == {c \in ConnIds : conn[c].st \in {"opening", "open"}}

\* C16: at any moment a client has at most one transport that is opening or
\* open, under every interleaving of connect() calls, timer firings and
\* close/error callbacks of earlier transports.
C16_AtMostOneTransport == Cardinality(Live) <= 1

\* ------------------------------------------------------------------ C17
\* the last call was a request that the server answered with ok = false and
\* an error code
AnsweredNotOk ==
  /\ call.fn \in {"request", "sendAndWait"}
  /\ call.status = 200
  /\ ~call.data.ok
  /\ call.data.errorType = "string" /\ call.data.error # ""

\* the code of the reply is one coerceKristError recognises
Recognised(d) == d.errorType = "string" /\ d.error \in ErrorCodes

\* C17: every server reply with ok = false, to a REST request or to a
\* WebSocket request, reaches the caller as a rejection with a typed error:
\* of the class the reply's error code selects, of the generic KristError when
\* the code is not recognised.
C17_NotOkRejectsWithTypedError ==
  AnsweredNotOk =>
    /\ call.out.settle = "rejected"
    /\ IF Recognised(call.data)
         THEN call.out.value.class = ErrorClasses[call.data.error]
         ELSE call.out.value.class = "KristError"

\* ------------------------------------------------------------------ C18
\* the last call applied a wallet format and returned a key
Applied ==
  /\ call.fn = "applyWalletFormat"
  /\ call.out.settle = "resolved"

\* the format of the last call, an absent one counting as kristwallet
FormatApplied ==
  IF call.format.given /\ call.format.v # "" THEN call.format.v ELSE "kristwallet"

\* H, the hash function supplied to the last call (sha256 when none is)
H(x) == Digest(IF call.sha.given THEN call.sha.v ELSE "sha256", x)

\* C18: with H the supplied hash function, applyWalletFormat returns
\* H("KRISTWALLET"+password)+"-000" for kristwallet,
\* H(H(username)+"^"+H(password)) for kristwallet_username,
\* H("KRISTWALLETEXTENSION"+H(H(username)+"^"+H(password)))+"-000" for
\* kristwallet_username_appendhashes, and the password unchanged, with H never
\* invoked, for api; an absent format is treated as kristwallet. (A username
\* that is left out stands for the empty string.)
C18_WalletFormatFormulas ==
  Applied =>
    LET password == call.password
        username == IF call.username.given THEN call.username.v ELSE Lit("")
        inner == H(H(username) \o Lit("^") \o H(password))
    IN  /\ FormatApplied = "kristwallet"
          => call.out.val = H(Lit("KRISTWALLET") \o password) \o Lit("-000")
        /\ FormatApplied = "kristwallet_username" => call.out.val = inner
        /\ FormatApplied = "kristwallet_username_appendhashes"
          => call.out.val = H(Lit("KRISTWALLETEXTENSION") \o inner) \o Lit("-000")
        /\ FormatApplied = "api" => call.out.val = password /\ call.out.n = 0

\* C18 witness: kristwallet_username_appendhashes was applied to a password
\* and a username with a hash function of the caller's, and a kristwallet key
\* was made with no format given.
C18_AppendhashesApplied ==
  /\ Applied
  /\ call.format = Given("kristwallet_username_appendhashes")
  /\ call.username = Given(Lit("a"))
  /\ call.password = Lit("b")
  /\ call.sha = Given("sha512")
  /\ call.out.n = 4

\* ------------------------------------------------------------------ C19
RECURSIVE Nested(_, _)
\* H applied n times in nested succession to x
Nested(n, x) == IF n = 0 THEN x ELSE H(Nested(n - 1, x))

\* C19 (as stated): for jwalelset applyWalletFormat returns H applied exactly
\* 17 times in nested succession to the password, invoking H exactly 17 times.
C19_JwalelsetSeventeen ==
  (Applied /\ FormatApplied = "jwalelset") =>
    call.out.val = Nested(17, call.password) /\ call.out.n = 17

\* C19 (amended): the same with 18 in place of 17.
C19_JwalelsetEighteen ==
  (Applied /\ FormatApplied = "jwalelset") =>
    call.out.val = Nested(18, call.password) /\ call.out.n = 18

\* C19 witness: jwalelset was applied to a password and returned a key.
C19_JwalelsetApplied ==
  /\ Applied
  /\ call.format = Given("jwalelset")
  /\ call.password = Lit("a")
  /\ call.out.val # call.password

\* ------------------------------------------------------------------ C20
\* C20: formatNeedsUsername returns true exactly for
\* kristwallet_username_appendhashes and kristwallet_username, false for
\* kristwallet, jwalelset and api, and fails for a format outside the set.
C20_NeedsUsernameExactly ==
  call.fn = "formatNeedsUsername" =>
    IF call.format \in KRIST_WALLET_FORMAT_NAMES
      THEN /\ call.out.settle = "returned"
           /\ call.out.val = (call.format \in {"kristwallet_username_appendhashes",
                                                "kristwallet_username"})
      ELSE call.out.settle = "threw"

\* ------------------------------------------------------------------ C21
\* the call r has ended by rejecting
Rejected(r) ==
  \/ r.pc = "rejected"
  \/ r.pc = "returned" /\ r.result.settle = "rejected"

\* the calls of the hash function the call r has made
HashCalls(r) == r.n + r.result.n

\* the arguments of the call r are among those the functions are to refuse
BadArguments(r) ==
  \/ /\ r.fn \in {"applyWalletFormat", "calculateAddress"}
     /\ r.format.given
     /\ r.format.v \notin KRIST_WALLET_FORMAT_NAMES
  \/ r.password.t # "string"
  \/ r.password.v = <<>>
  \/ r.username.given /\ r.username.v = <<>>
  \/ /\ r.fn \in {"makeV2Address", "calculateAddress"}
     /\ r.prefix.t # "undefined"
     /\ (r.prefix.t # "string" \/ r.prefix.v = <<>>)
  \/ r.sha.given /\ r.sha.v = ""

\* C21: applyWalletFormat, makeV2Address and calculateAddress reject the
\* call, without one call of the hash function, when the format is not one of
\* the fixed set, the password or key is empty or no string, a username is
\* given but empty, the address prefix is empty or no string, or the hash
\* function is not callable.
C21_BadArgumentsRejectedUnhashed ==
  \A k \in Callers :
    (Runs[k].pc # "idle" /\ BadArguments(Runs[k]))
      => (Rejected(Runs[k]) /\ HashCalls(Runs[k]) = 0)

\* ------------------------------------------------------------------ C22
\* the call r has returned an address
Returned(r) == r.pc = "done" /\ r.fn \in {"makeV2Address", "calculateAddress"}

\* the hash function of the call r returns hexadecimal digits
Hexadecimal(r) == HashTable[FnOf(r.sha)].hex

\* the characters of the address r.out behind the prefix
Derived(r) == {r.out[p] : p \in (Len(PrefixOf(r.prefix).v) + 1)..Len(r.out)}

\* C22: for every slot value in 0..255 the character hexToBase36 makes of it
\* lies in [a-z0-9]; so each derived character of an address lies in
\* [a-z0-9] whenever the hash function returns hexadecimal digits.
C22_DerivedCharactersBase36 ==
  /\ (call.fn = "hexToBase36" /\ call.input \in 0..255) => call.out \in Base36
  /\ \A k \in Callers :
       (Returned(Runs[k]) /\ Hexadecimal(Runs[k])) => Derived(Runs[k]) \subseteq Base36

\* C22 (witness): an address is returned that holds the character made of a
\* slot value above 251, the letter e
C22_AddressWithClampedCharacter ==
  \E k \in Callers :
    Returned(Runs[k]) /\ Hexadecimal(Runs[k]) /\ 101 \in Derived(Runs[k])

\* ------------------------------------------------------------------ C23
\* C23: for every key and every address prefix makeV2Address accepts, the
\* address returned has length 10: one character of prefix and nine derived
\* characters.
C23_AddressLengthTen ==
  \A k \in Callers :
    (Returned(Runs[k]) /\ Runs[k].fn = "makeV2Address") => Len(Runs[k].out) = 10

\* ------------------------------------------------------------------ C24
\* the key makeV2Address is called with in the call r
KeyOf(r) == IF r.fn = "calculateAddress" THEN r.result.val ELSE r.password.v

\* the m-th of the successive double hashes of a key, m >= 1
RECURSIVE DoubleHashes(_, _, _)
DoubleHashes(fn, key, m) ==
  IF m = 1 THEN doubleSha256OfKey(fn, key)
  ELSE doubleSha256(fn, DoubleHashes(fn, key, m - 1))

\* the call r is within makeV2Address, with a hexadecimal hash function
Deriving(r) ==
  /\ r.fn \in {"makeV2Address", "calculateAddress"}
  /\ r.pc \in {"fill", "draw", "done"}
  /\ Hexadecimal(r)

\* slot j holds the first two digits of the (j+1)-th double hash of the key
\* from the round that fills it until it is consumed, and the second loop
\* begins with the tenth double hash
SlotsFilled(r) ==
  LET fn == FnOf(r.sha)
      first(j) == Pair(DoubleHashes(fn, KeyOf(r), j + 1), 0)
  IN  /\ r.pc = "fill" =>
           /\ \A j \in 0..8 : r.chars[j] = IF j < r.i THEN first(j) ELSE Empty
           /\ r.hash = DoubleHashes(fn, KeyOf(r), r.i + 1)
           /\ r.chain = PrefixOf(r.prefix).v
      /\ r.pc = "draw" => \A j \in 0..8 : r.chars[j] \in {Empty, first(j)}
      /\ (r.pc = "draw" /\ r.i = 0 /\ r.n = 20) =>
           /\ \A j \in 0..8 : r.chars[j] = first(j)
           /\ r.hash = DoubleHashes(fn, KeyOf(r), 10)

\* a round of the second loop takes the call from r to s as the claim says
Drawn(r, s) ==
  LET idx == Pair(r.hash, r.i) % 9
  IN  IF r.chars[idx] = Empty
        THEN /\ s.hash = sha256OfDigest(FnOf(r.sha), r.hash)
             /\ s.i = r.i
             /\ s.chain = r.chain
             /\ s.chars = r.chars
             /\ s.pc = "draw"
        ELSE /\ s.chain = Append(r.chain, hexToBase36(r.chars[idx]))
             /\ s.chars = [r.chars EXCEPT ![idx] = Empty]
             /\ s.i = r.i + 1
             /\ s.hash = r.hash
             /\ s.pc = IF s.i = 9 THEN "done" ELSE "draw"

\* the call r, when it has returned, has consumed every slot and returns the
\* prefix followed by the nine characters appended
Consumed(r) ==
  r.pc = "done" =>
    /\ \A j \in 0..8 : r.chars[j] = Empty
    /\ r.out = r.chain
    /\ Len(r.out) = Len(PrefixOf(r.prefix).v) + 9
    /\ SubSeq(r.out, 1, Len(PrefixOf(r.prefix).v)) = PrefixOf(r.prefix).v

\* C24: makeV2Address fills nine slots with the first two digits of nine
\* successive double hashes of the key and then consumes every slot once: at
\* cursor i it draws idx = (digits 2i, 2i+1 of hash) mod 9; if slot idx is
\* consumed it replaces hash by its single hash and draws again with the
\* same i, appending nothing; otherwise it appends the character of slot idx,
\* marks the slot consumed and advances i. The result is the prefix followed
\* by the nine characters.
C24_CollisionResolvingDerivation ==
  [][\A k \in Callers :
       /\ (Deriving(Runs[k])' /\ Runs[k]' # Runs[k])
            => (SlotsFilled(Runs[k])' /\ Consumed(Runs[k])')
       /\ (Deriving(Runs[k]) /\ Runs[k].pc = "draw" /\ Runs[k]' # Runs[k])
            => Drawn(Runs[k], Runs[k]')]_vars

\* C24 (witness): an address has been returned after a draw met a consumed
\* slot and the hash was replaced
C24_ReturnedAfterCollision ==
  \E k \in Callers :
    Returned(Runs[k]) /\ Hexadecimal(Runs[k]) /\ Runs[k].n > 20

\* ------------------------------------------------------------------ C25
\* the call r has ended
Ended(r) == r.pc \in {"rejected", "returned", "done"}

\* the calls r and s are calls of one function with the same arguments and
\* the same hash function
SameCall(r, s) ==
  /\ r.fn = s.fn
  /\ r.password = s.password
  /\ r.username = s.username
  /\ r.format = s.format
  /\ r.prefix = s.prefix
  /\ r.sha = s.sha

InSync(c) ==
  /\ conn[c].subs = initSubscriptions
  /\ \A r \in ReqIds :
       req[r].owner = c => req[r].kind \notin {"subscribe", "unsubscribe"}

\* C26: the subscription sync is idempotent: when the server's set equals the
\* desired set at the time of a handshake, the sync issues no subscribe and
\* no unsubscribe request and the server's set stays as it is.
C26_SyncIdempotent ==
  [][\A c \in ConnIds :
       /\ (hello[c].st = "none" /\ hello'[c].st # "none"
             /\ conn[c].subs = initSubscriptions) => InSync(c)'
       /\ (hello[c].st # "none" /\ InSync(c)) => InSync(c)']_vars

\* C26 (witness): a handshake that found the server's set equal to a desired
\* set that is not empty has run its sync to the end
C26_SyncedWithNothingToDo ==
  \E c \in ConnIds :
    hello[c].st = "done" /\ InSync(c) /\ initSubscriptions # {}

\* ------------------------------------------------------------------ C27
\* C27: the state signal is emitted only when the connection state changes:
\* in every state notification the new state differs from the old state.
C27_StateSignalOnlyOnChange ==
  \A i \in DOMAIN emits :
    emits[i][1] = "state" => emits[i][2] # emits[i][3]

\* ------------------------------------------------------------------ C29
\* C29: a freshly constructed client is in state "disconnected" before
\* connect() is called, so the old state of the first state notification,
\* the one connect() starts with, is "disconnected".
C29_FreshClientDisconnected ==
  [][(conn[1].st = "unused" /\ conn'[1].st # "unused") =>
       /\ connectionState = "disconnected"
       /\ emits' # <<>>
       /\ emits'[1][1] = "state"
       /\ emits'[1][3] = "disconnected"]_vars

\* ------------------------------------------------------------------ C28
\* the promise returned by the connect() call that made _connect() call c:
\* connect() awaits _connect() and catches its rejection with
\* handleDisconnect, so it resolves as soon as _connect()'s promise settles,
\* either way
connect(c) ==
  IF conn[c].origin # "connect" THEN "none"
  ELSE IF conn[c].promise \in {"resolved", "rejected"} THEN "resolved"
  ELSE "pending"

\* the transport of _connect() call c has opened: onOpen is the one place that
\* resolves its promise
Opened(c) == conn[c].promise = "resolved"

\* C28: whenever the promise returned by connect() settles it is resolved,
\* never rejected, and at that moment the transport of this connection
\* attempt has opened.
C28_ConnectResolvedOnOpen ==
  [][\A c \in ConnIds :
       (connect(c) = "pending" /\ connect(c)' # "pending") =>
         (connect(c)' = "resolved" /\ Opened(c)')]_vars

\* ------------------------------------------------------------------ C30
\* this step settles request r with a message handleMessage dispatched, not
\* with the exception of its own transmission
SettledByReply(r) ==
  /\ req[r].settle = "pending"
  /\ req'[r].settle \in {"resolved", "rejected"}
  /\ req'[r].st # "threw"

\* request r has been transmitted, so the server has produced a reply to it
Transmitted(r) == req[r].st = "sent"

\* C30: a request is only settled with the server's reply to that same
\* request, and no transmitted request loses its pending entry to another
\* request. The server produces a reply to a request only once the request
\* has been transmitted, so a request that a reply settles has been
\* transmitted; and a transmitted request that is not yet settled still has
\* the map entry of its id.
C30_SettledByOwnReply ==
  [][\A r \in ReqIds :
       /\ SettledByReply(r) => Transmitted(r)
       /\ (Transmitted(r)' /\ req'[r].settle = "pending")
            => messageResponses'[req'[r].id] = r]_vars

\* ------------------------------------------------------------------ C31
\* transport c is hooked to the client's callbacks and this.ws refers to
\* another transport: this.ws is assigned only where a transport is created,
\* so that one was created after c
Superseded(c) ==
  /\ ws # 0
  /\ ws # c
  /\ conn[c].st \in {"opening", "aborting", "open", "closing", "errored"}

\* this step is a close, error or message event of transport c
CloseErrorOrMessage(c) ==
  \/ conn[c].st # "closed" /\ conn'[c].st = "closed"
  \/ conn[c].st # "errored" /\ conn'[c].st = "errored"
  \/ DeliveredTo(c)

\* C31: a close, error or message event of a superseded transport changes
\* neither the open/closed flags nor the connection state nor the reconnect
\* timer, and the messages of the current transport, while it is open and
\* forceClose() has not been called, are not dropped.
C31_SupersededCallbacksInert ==
  [][/\ \A c \in ConnIds :
          (Superseded(c) /\ CloseErrorOrMessage(c)) =>
            UNCHANGED <<isOpened, isClosed, connectionState, reconnectionTimer>>
     /\ \A c \in ConnIds :
          ( /\ ws = c
            /\ conn[c].st = "open"
            /\ ~forceClosing
            /\ DeliveredTo(c) ) => emits' # <<>>]_vars

\* ------------------------------------------------------------------ C32
\* the moves of the connection state the life cycle allows, as <<old, new>>
Moves ==
  { <<"disconnected", "connecting">>, <<"connecting", "connected">>,
    <<"connected", "disconnected">>, <<"connecting", "disconnected">> }

\* C32: the connection state only moves along disconnected -> connecting ->
\* connected -> disconnected, or connecting -> disconnected: every state
\* notification that reports a change reports one of these moves, so never
\* disconnected -> connected and never connected -> connecting.
C32_StateMovesAlongLifeCycle ==
  \A i \in DOMAIN emits :
    (emits[i][1] = "state" /\ emits[i][2] # emits[i][3])
      => <<emits[i][3], emits[i][2]>> \in Moves

\* ------------------------------------------------------------------ C33
\* the client has left "connecting": it is connected, or it is disconnected
\* with a reconnect scheduled
Settled ==
  \/ connectionState = "connected"
  \/ connectionState = "disconnected" /\ reconnectionTimer.pending

\* C33: once the hello message of transport c has been handled and the server
\* answers every request of the subscription sync, with a success or with an
\* error, the client becomes connected (and emits ready) or disconnected with
\* a reconnect scheduled: it does not stay in "connecting" for ever while
\* transport c is open.
C33_HandshakeSettles ==
  \A c \in ConnIds :
    [](hello[c].st # "none" => <>(Settled \/ conn[c].st # "open"))

\* ------------------------------------------------------------------ C34
\* C34: after forceClose() has been called the client eventually holds no
\* open transport, whatever the moment of the call: a transport that is open
\* once forceClose() has been called, also one that was still being opened at
\* the call, does not stay open.
C34_NoOpenTransportAfterForceClose ==
  \A c \in ConnIds :
    []((forceClosing /\ conn[c].st = "open") => <>(conn[c].st # "open"))

\* ------------------------------------------------------------------ C35
\* this step leaves the requests, the pending-request map, the handshakes
\* and the connection state as they are
NoEffect ==
  /\ req' = req
  /\ messageResponses' = messageResponses
  /\ hello' = hello
  /\ connectionState' = connectionState

\* C35 (as stated): after forceClose() has been called no inbound message has
\* any effect: no signal is emitted for it, no pending request is settled,
\* and the state never becomes connected.
C35_NoEffectAfterForceClose ==
  [][forceClosing =>
       /\ \A c \in ConnIds : DeliveredTo(c) => (emits' = <<>> /\ NoEffect)
       /\ connectionState # "connected" => connectionState' # "connected"]_vars

\* C35 (amended): the same for every inbound message that is JSON text; a
\* frame that is not JSON text causes the invalid-message signal and nothing
\* else.
C35_NoEffectOfParsedAfterForceClose ==
  [][forceClosing =>
       /\ \A c \in ConnIds :
            DeliveredTo(c) =>
              /\ NoEffect
              /\ emits' = IF Head(conn[c].inbox) = NotJson
                            THEN << <<"errorInvalidMessage", NotJson>> >>
                            ELSE <<>>
       /\ connectionState # "connected" => connectionState' # "connected"]_vars

\* C35 (witness): forceClose() has been called and the reply to a request of
\* a handshake has been delivered by the closing transport and dropped: the
\* request was transmitted, nothing is left to deliver, it is still pending
C35_ReplyDroppedAfterForceClose ==
  /\ forceClosing
  /\ \E c \in ConnIds, r \in ReqIds :
       /\ conn[c].st = "closing"
       /\ conn[c].inbox = <<>>
       /\ req[r].owner = c
       /\ req[r].st = "sent"
       /\ req[r].settle = "pending"
       /\ messageResponses[req[r].id] = r

\* ------------------------------------------------------------------ C36
\* C36: forceClose() is idempotent: called in any state the client can be
\* in, a second call changes nothing the first call left (no state of the
\* client, no transport), a call made once the flag is set changes nothing,
\* and no call removes, resolves or rejects an entry of the pending-request
\* map.
C36_ForceCloseIdempotent ==
  LET s1 == forceClose(Cur)
      s2 == forceClose(s1)
  IN  /\ s2 = s1
      /\ forceClosing => s1 = Cur
      /\ s1.messageResponses = messageResponses
      /\ s1.req = req

\* C36 (witness): forceClose() has been called on an open transport, which is
\* closing, while a request is pending with its entry in the map
C36_ForceClosedWithRequestPending ==
  /\ forceClosing
  /\ ws # 0
  /\ conn[ws].st = "closing"
  /\ \E r \in ReqIds :
       req[r].settle = "pending" /\ messageResponses[req[r].id] = r

\* ------------------------------------------------------------------ C37
\* this step is the one in which _connect() call c calls api._wsStart with
\* this.privatekey as it is then
ExchangeBegins(c) == conn[c].st # "url" /\ conn'[c].st = "url"

\* this step is the one in which _connect() call c starts the wallet-format
\* derivation
DerivationBegins(c) == conn[c].st # "key" /\ conn'[c].st = "key"

\* C37: once a private key has been computed or accepted it is never
\* changed: every later ws/start exchange carries it and the wallet-format
\* derivation is not started again; a guest client carries no private key in
\* any exchange.
C37_PrivateKeyFixed ==
  [][/\ privatekey # "none" =>
          /\ privatekey' = privatekey
          /\ \A c \in ConnIds : ~DerivationBegins(c)
     /\ \A c \in ConnIds :
          ExchangeBegins(c) =>
            /\ options = "guest" => privatekey' = "none"
            /\ options = "password" => privatekey' = "key"
            /\ options = "privatekey" => privatekey' = "given"]_vars

\* C37 (witness): a client with a derived key is in the ws/start exchange of
\* a reconnection
C37_ReconnectsWithKey ==
  \E c \in ConnIds :
    /\ conn[c].origin = "timer"
    /\ conn[c].st = "url"
    /\ privatekey = "key"

\* ------------------------------------------------------------------ C38
\* request r was issued by a handshake, that is, within the dispatch of a
\* message of an open transport, and has since waited for a token
Suspended(r) == req[r].owner # 0 /\ req[r].st = "queued"

\* C38: rate limiting is backpressure, not failure: a sendAndWait call that
\* finds the limiter without a token is suspended, it is never rejected or
\* dropped for having waited, and its message is transmitted once a token is
\* granted.
C38_SuspendedThenTransmitted ==
  [][\A r \in ReqIds :
       Suspended(r) =>
         \/ req'[r] = req[r]
         \/ req'[r].st = "sent" /\ req'[r].settle = "pending"]_vars

\* ------------------------------------------------------------------ C39
\* the clamped limit and start offset of the paginateCollection call in
\* progress, recovered from its first request
FirstOffset == IF call.pages = <<>> THEN call.nextOffset ELSE call.pages[1]

\* C39: paginateCollection requests the pages at offsets o, o + L, o + 2L,
\* ... with L >= 1 and o >= 0, never requests a page other than the first
\* whose offset is greater than or equal to the total the server reports,
\* and returns that total.
C39_PaginationStopsWhenExhausted ==
  call.fn = "paginateCollection" =>
    /\ call.limit >= 1
    /\ FirstOffset >= 0
    /\ \A i \in DOMAIN call.pages :
         /\ call.pages[i] = FirstOffset + (i - 1) * call.limit
         /\ i > 1 => call.pages[i] < call.server
    /\ call.pc = "returned" => call.out = call.server

====
